---- MODULE Spec2Model ----
(***************************************************************************)
(* Formata backend: the job registry (app/jobs/store.py), the background   *)
(* worker (app/jobs/worker.py), the processing pipeline                    *)
(* (app/services/pipeline.py), the request handlers that drive them       *)
(* (app/api/ingest.py, process.py, jobs.py) and the filter engine          *)
(* (app/services/filtering.py).                                            *)
(*                                                                         *)
(* The server is a single asyncio event loop.  A coroutine runs without    *)
(* interruption until it awaits; `await asyncio.sleep(0)` puts it at the   *)
(* back of the loop's FIFO ready queue.  `running` is the task that holds  *)
(* the loop, `ready` the queue.  Request handlers contain no await between *)
(* their reads and writes of the registry, so each is one step taken when  *)
(* no task holds the loop.                                                 *)
(*                                                                         *)
(* Progress values are in hundredths (0.25 is 25).  Timestamps are reads   *)
(* of a strictly increasing clock.  An Optional value is <<>> (None) or    *)
(* <<v>>.                                                                  *)
(***************************************************************************)
EXTENDS Integers, Sequences, FiniteSets, TLC

VARIABLES jobs, nextId, ingesting, clock, tasks, ready, running, files,
          f_df, f_filters, f_out, f_chain, f_applied,
          fn_in, fn_out

\* the server's state, the state of a caller of apply_filters, and the
\* arguments and return value of one call of a transform
jvars == <<jobs, nextId, ingesting, clock, tasks, ready, running, files>>
fvars == <<f_df, f_filters, f_out, f_chain, f_applied, fn_in, fn_out>>
vars == <<jvars, fvars>>

\* ------------------------------------------------------------------ bounds
MaxJobs == 2
MaxTasks == 2
MaxItems == 2

JobIds == 1..MaxJobs
TaskSlots == 1..MaxTasks

None == <<>>
Some(v) == <<v>>

\* ------------------------------------------------------- app/jobs/store.py
JobStatus == {"pending", "processing", "completed", "failed", "cancelled"}

\* Job.__init__
Job(file_ext, now) ==
    [file_ext |-> file_ext, status |-> "pending", created_at |-> now,
     started_at |-> None, completed_at |-> None, progress |-> 0,
     result |-> None, errors |-> <<>>, metadata |-> {}]

Max(a, b) == IF a >= b THEN a ELSE b
Min(a, b) == IF a <= b THEN a ELSE b

\* JobStore.update_job_status: the registry after the call at clock reading now
update_job_status(js, job_id, status, now) ==
    IF job_id \notin DOMAIN js THEN js
    ELSE [js EXCEPT ![job_id] =
            IF status = "processing"
            THEN [@ EXCEPT !.status = status, !.started_at = Some(now)]
            ELSE IF status \in {"completed", "failed", "cancelled"}
            THEN [@ EXCEPT !.status = status, !.completed_at = Some(now)]
            ELSE [@ EXCEPT !.status = status]]

update_every_job_progress(js, job_id, progress) ==
    [k \in DOMAIN js |-> [js[k] EXCEPT !.progress = Max(0, Min(100, progress))]]

\* JobStore.update_job_progress
update_job_progress(js, job_id, progress) ==
    IF job_id \notin DOMAIN js THEN js
    ELSE [js EXCEPT ![job_id].progress = Max(0, Min(100, progress))]

\* JobStore.add_job_error
add_job_error(js, job_id, error) ==
    IF job_id \notin DOMAIN js THEN js
    ELSE [js EXCEPT ![job_id].errors = Append(@, error)]

\* a store whose setters create the entry they do not find
set_job_result_upsert(js, job_id, result) ==
    [k \in DOMAIN js \cup {job_id} |->
        IF k = job_id
        THEN [(IF k \in DOMAIN js THEN js[k] ELSE Job("", 0)) EXCEPT
                 !.result = Some(result)]
        ELSE js[k]]

\* a store that drops the result it is given
set_job_result_dropped(js, job_id, result) == js

\* JobStore.set_job_result
set_job_result(js, job_id, result) ==
    IF job_id \notin DOMAIN js THEN js
    ELSE [js EXCEPT ![job_id].result = Some(result)]

\* JobStore.delete_job
delete_job(js, job_id) ==
    [k \in DOMAIN js \ {job_id} |-> js[k]]

\* datetime.now() is read by update_job_status only when the job exists
Tick(js, job_id, now) == IF job_id \in DOMAIN js THEN now + 1 ELSE now

\* ------------------------------------------------------ request parameters
\* extensions ingest accepts (api/ingest.py valid_extensions)
ValidExtensions == {".csv", ".json", ".xlsx", ".xls", ".md"}
TabularExtensions == {".csv", ".json", ".xlsx", ".xls"}

\* output_format is a free string of the request body: the two formats the
\* writer knows and one it does not
OutputFormats == {"csv", "json", "xml"}

\* the files and formats the requests of Spec send: one tabular kind and the
\* prose kind, one known format and one unknown
UploadExtensions == {".csv", ".md"}
RequestFormats == {"csv", "xml"}

\* ProcessConfig.dict(): the keys of the request model that steer the run
ProcessConfigs == {[output_format |-> f] : f \in RequestFormats}

\* every configuration run_async recognises: the optional stages' switches,
\* without and with validation rules
StageSwitches ==
    {[output_format |-> f] : f \in OutputFormats}
    \cup {[output_format |-> f, enforce_types |-> e] :
            f \in OutputFormats, e \in BOOLEAN}
    \cup {[output_format |-> f, handle_missing_data |-> m] :
            f \in OutputFormats, m \in BOOLEAN}
    \cup {[output_format |-> f, enforce_types |-> e, handle_missing_data |-> m] :
            f \in OutputFormats, e \in BOOLEAN, m \in BOOLEAN}

RunConfigs ==
    StageSwitches
    \cup {[k \in DOMAIN c \cup {"validation_rules"} |->
             IF k = "validation_rules" THEN TRUE ELSE c[k]] : c \in StageSwitches}

\* dict.get(key, default)
ConfigGet(config, key, default) ==
    IF key \in DOMAIN config THEN config[key] ELSE default


\* ----------------------------------------------- app/services/pipeline.py
\* run_async's initial result payload (pipeline.py 62-72); metadata and
\* reports are the sets of keys they hold
InitialResult ==
    [status |-> "processing", errors |-> <<>>, output_path |-> None,
     reports |-> {}, summary |-> FALSE, metadata |-> {}]

\* the value run_async passes to progress_callback on entering a stage
Checkpoint(stage) ==
    CASE stage = "parse" -> 20
      [] stage = "normalize" -> 25
      [] stage = "enforce" -> 27
      [] stage = "missing" -> 30
      [] stage = "filter" -> 40
      [] stage = "noise" -> 50
      [] stage = "validate" -> 65
      [] stage = "profile" -> 80
      [] stage = "vectorize" -> 90
      [] stage = "write" -> 95
      [] stage = "finish" -> 100

\* config.get("enforce_types", True), config.get("handle_missing_data", True)
EnforceEnabled(config) == ConfigGet(config, "enforce_types", TRUE)
MissingEnabled(config) == ConfigGet(config, "handle_missing_data", TRUE)

AfterEnforce(config) == IF MissingEnabled(config) THEN "missing" ELSE "filter"

\* a stage order with filtering and noise removal swapped
NextStageSwapped(stage, config) ==
    CASE stage = "parse" -> "normalize"
      [] stage = "normalize" ->
            IF EnforceEnabled(config) THEN "enforce" ELSE
            IF MissingEnabled(config) THEN "missing" ELSE "noise"
      [] stage = "enforce" -> IF MissingEnabled(config) THEN "missing" ELSE "noise"
      [] stage = "missing" -> "noise"
      [] stage = "noise" -> "filter"
      [] stage = "filter" -> "validate"
      [] stage = "validate" -> "profile"
      [] stage = "profile" -> "vectorize"
      [] stage = "vectorize" -> "write"
      [] stage = "write" -> "finish"

\* the statement that follows a stage of run_async that did not raise
NextStage(stage, config) ==
    CASE stage = "parse" -> "normalize"
      [] stage = "normalize" ->
            IF EnforceEnabled(config) THEN "enforce" ELSE AfterEnforce(config)
      [] stage = "enforce" -> AfterEnforce(config)
      [] stage = "missing" -> "filter"
      [] stage = "filter" -> "noise"
      [] stage = "noise" -> "validate"
      [] stage = "validate" -> "profile"
      [] stage = "profile" -> "vectorize"
      [] stage = "vectorize" -> "write"
      [] stage = "write" -> "finish"

\* ------------------------------------------------------- the event loop
\* a task record after process_job_async was handed to asyncio.create_task
NewTask(job_id, ext, config) ==
    [job_id |-> job_id, ext |-> ext, config |-> config, pc |-> "start",
     result |-> InitialResult, exc |-> "", stages |-> <<>>, cb |-> None,
     raised |-> FALSE]

\* a coroutine that returned: its frame and locals are gone (raised stays,
\* as the record of what the run did)
Finished(tk) ==
    [NewTask(tk.job_id, tk.ext, tk.config) EXCEPT !.pc = "done",
                                                  !.raised = tk.raised]

\* the running task t becomes tk; yield is TRUE when the code it ran ended
\* in `await asyncio.sleep(0)`
Advance(t, tk, yield) ==
    /\ tasks' = [tasks EXCEPT ![t] = IF tk.pc = "done" THEN Finished(tk) ELSE tk]
    /\ IF yield THEN ready' = Append(ready, t) /\ running' = 0
       ELSE IF tk.pc = "done" THEN ready' = ready /\ running' = 0
       ELSE UNCHANGED <<ready, running>>

\* the stage of the running task t ends without raising
StageReturns(t, stage, result, yield) ==
    Advance(t, [tasks[t] EXCEPT !.pc = NextStage(stage, tasks[t].config),
                                !.result = result,
                                !.stages = Append(@, stage),
                                !.cb = Some(Checkpoint(stage))], yield)

\* the stage of the running task t raises: control moves to run_async's except
StageRaises(t, stage, message) ==
    Advance(t, [tasks[t] EXCEPT !.pc = "except", !.exc = message,
                                !.raised = TRUE,
                                !.stages = Append(@, stage),
                                !.cb = Some(Checkpoint(stage))], FALSE)

\* progress_callback of the worker: lambda p: job_store.update_job_progress
Callback(t, stage) ==
    jobs' = update_job_progress(jobs, tasks[t].job_id, Checkpoint(stage))

At(t, pc) == t \in DOMAIN tasks /\ running = t /\ tasks[t].pc = pc

\* the loop hands control to the task at the head of the ready queue
Schedule ==
    /\ running = 0
    /\ ready # <<>>
    /\ running' = Head(ready)
    /\ ready' = Tail(ready)
    /\ UNCHANGED <<jobs, nextId, ingesting, clock, tasks, files>>
    /\ UNCHANGED fvars


\* ------------------------------------------------- app/jobs/worker.py 15-21
\* process_job_async up to the call of run_async: status processing,
\* progress 0.1, the pipeline object
WorkerStart(t) ==
    /\ At(t, "start")
    /\ jobs' = update_job_progress(
                  update_job_status(jobs, tasks[t].job_id, "processing", clock),
                  tasks[t].job_id, 10)
    /\ clock' = Tick(jobs, tasks[t].job_id, clock)
    /\ Advance(t, [tasks[t] EXCEPT !.pc = "parse"], FALSE)
    /\ UNCHANGED <<nextId, ingesting, files>>
    /\ UNCHANGED fvars

\* ----------------------------------------------------- pipeline.py 76-106
\* STEP 2: the parser is chosen by the extension of file_path; a parser
\* raises when the file is missing or malformed (parser.py)
Parse(t) ==
    /\ At(t, "parse")
    /\ Callback(t, "parse")
    /\ \/ /\ tasks[t].ext \in TabularExtensions
          /\ \/ StageReturns(t, "parse", tasks[t].result, TRUE)
             \/ StageRaises(t, "parse", "Failed to parse")
       \/ /\ tasks[t].ext = ".md"
          /\ \/ Advance(t, [tasks[t] EXCEPT
                              !.pc = "set_result",
                              !.result = [@ EXCEPT !.status = "completed"],
                              !.stages = Append(@, "parse"),
                              !.cb = Some(Checkpoint("parse"))], FALSE)
             \/ StageRaises(t, "parse", "Failed to parse Markdown")
       \/ /\ tasks[t].ext \notin TabularExtensions \cup {".md"}
          /\ StageRaises(t, "parse", "Unsupported file type")
    /\ UNCHANGED <<nextId, ingesting, clock, files>>
    /\ UNCHANGED fvars

\* pipeline.py 108-120, STEP 3: standardize_columns and normalize_types catch
\* every exception themselves (normalization.py 38, 106)
Normalize(t) ==
    /\ At(t, "normalize")
    /\ Callback(t, "normalize")
    /\ StageReturns(t, "normalize", tasks[t].result, TRUE)
    /\ UNCHANGED <<nextId, ingesting, clock, files>>
    /\ UNCHANGED fvars

\* pipeline.py 122-148, STEP 3.5: column errors of the report are added to
\* result.errors; validate_ranges is not guarded and may raise
EnforceTypes(t) ==
    /\ At(t, "enforce")
    /\ Callback(t, "enforce")
    /\ \/ \E column_errors \in BOOLEAN :
            StageReturns(t, "enforce",
                [tasks[t].result EXCEPT
                    !.errors = IF column_errors
                               THEN Append(@, "Type enforcement") ELSE @,
                    !.metadata = @ \cup {"type_enforcement"}], TRUE)
       \/ StageRaises(t, "enforce", "range rules")
    /\ UNCHANGED <<nextId, ingesting, clock, files>>
    /\ UNCHANGED fvars

\* pipeline.py 150-190, STEP 3.7: the two reports it may store under
\* result.metadata are read only by the quality scorer
HandleMissing(t) ==
    /\ At(t, "missing")
    /\ Callback(t, "missing")
    /\ \/ StageReturns(t, "missing", tasks[t].result, TRUE)
       \/ StageRaises(t, "missing", "missing data strategy")
    /\ UNCHANGED <<nextId, ingesting, clock, files>>
    /\ UNCHANGED fvars

\* pipeline.py 192-206, STEP 4: a global rule that is not a mapping raises
\* out of apply_filters (filtering.py 96-97)
Filter(t) ==
    /\ At(t, "filter")
    /\ Callback(t, "filter")
    /\ \/ StageReturns(t, "filter", tasks[t].result, TRUE)
       \/ StageRaises(t, "filter", "filter rule")
    /\ UNCHANGED <<nextId, ingesting, clock, files>>
    /\ UNCHANGED fvars

\* pipeline.py 208-239, STEP 5: remove_duplicates and remove_outliers return
\* their input on any internal error (noise.py 45, 94)
Noise(t) ==
    /\ At(t, "noise")
    /\ Callback(t, "noise")
    /\ StageReturns(t, "noise", tasks[t].result, TRUE)
    /\ UNCHANGED <<nextId, ingesting, clock, files>>
    /\ UNCHANGED fvars

\* config.get("validation_rules"): whether the request carries a schema
HasRules(config) == ConfigGet(config, "validation_rules", FALSE)

\* a validate stage in which a row that violates the schema ends the run
ValidateFatal(t) ==
    /\ At(t, "validate")
    /\ Callback(t, "validate")
    /\ \/ \E issues \in BOOLEAN :
            StageReturns(t, "validate",
                [tasks[t].result EXCEPT
                    !.errors = IF issues THEN Append(@, "quality issue") ELSE @,
                    !.metadata = @ \cup {"quality_score"}], TRUE)
       \/ /\ HasRules(tasks[t].config)
          /\ tasks' = [tasks EXCEPT ![t] =
                          [@ EXCEPT !.pc = "except", !.exc = "schema violation",
                                    !.raised = TRUE,
                                    !.result = [@ EXCEPT !.errors =
                                                  Append(@, "schema violation")],
                                    !.stages = Append(@, "validate"),
                                    !.cb = Some(Checkpoint("validate"))]]
          /\ UNCHANGED <<ready, running>>
       \/ StageRaises(t, "validate", "validation rules")
    /\ UNCHANGED <<nextId, ingesting, clock, files>>
    /\ UNCHANGED fvars

\* pipeline.py 241-301, STEP 6: quality issues are added to result.errors;
\* with validation rules, the messages of get_validation_errors for the rows
\* that violate the schema are added too (270-280); the quality score goes
\* to the metadata.  Rules that are not mappings raise (validation.py 85)
Validate(t) ==
    /\ At(t, "validate")
    /\ Callback(t, "validate")
    /\ \/ \E issues \in BOOLEAN, violations \in BOOLEAN :
            /\ violations => HasRules(tasks[t].config)
            /\ StageReturns(t, "validate",
                  [tasks[t].result EXCEPT
                      !.errors = (IF issues THEN Append(@, "quality issue") ELSE @)
                                 \o (IF violations THEN <<"schema violation">>
                                     ELSE <<>>),
                      !.metadata = @ \cup {"quality_score"}], TRUE)
       \/ StageRaises(t, "validate", "validation rules")
    /\ UNCHANGED <<nextId, ingesting, clock, files>>
    /\ UNCHANGED fvars

\* pipeline.py 303-321, STEP 7: a failure of the profiler is caught in place;
\* the await is inside the try, after the report was written
Profile(t) ==
    /\ At(t, "profile")
    /\ Callback(t, "profile")
    /\ \/ /\ StageReturns(t, "profile",
                [tasks[t].result EXCEPT
                    !.reports = @ \cup {"clean_profile"},
                    !.metadata = @ \cup {"clean_profile_path"}], TRUE)
          /\ files' = files \cup {<<tasks[t].job_id, "profile">>}
       \/ /\ StageReturns(t, "profile",
                [tasks[t].result EXCEPT
                    !.errors = Append(@, "Clean profiling failed")], FALSE)
          /\ files' = files
    /\ UNCHANGED <<nextId, ingesting, clock>>
    /\ UNCHANGED fvars

\* pipeline.py 323-331, STEP 8: placeholder
Vectorize(t) ==
    /\ At(t, "vectorize")
    /\ Callback(t, "vectorize")
    /\ StageReturns(t, "vectorize", tasks[t].result, TRUE)
    /\ UNCHANGED <<nextId, ingesting, clock, files>>
    /\ UNCHANGED fvars

\* pipeline.py 333-361, STEP 9: the output file, then the error report
\* {job_id}_errors.txt when result.errors is not empty
WriteOutput(t) ==
    /\ At(t, "write")
    /\ Callback(t, "write")
    /\ LET fmt == ConfigGet(tasks[t].config, "output_format", "csv")
           j == tasks[t].job_id
           r == tasks[t].result
       IN  IF fmt \in {"json", "csv"}
           THEN /\ StageReturns(t, "write",
                      [r EXCEPT !.output_path = Some(fmt),
                                !.reports = IF r.errors # <<>>
                                            THEN @ \cup {"error_report"} ELSE @],
                      TRUE)
                /\ files' = files \cup {<<j, "output">>}
                              \cup (IF r.errors # <<>>
                                    THEN {<<j, "errors_report">>} ELSE {})
           ELSE /\ StageRaises(t, "write", "Unsupported output format")
                /\ files' = files
    /\ UNCHANGED <<nextId, ingesting, clock>>
    /\ UNCHANGED fvars

\* pipeline.py 363-393, STEP 11: summary, status completed, progress 1.0
Finish(t) ==
    /\ At(t, "finish")
    /\ Callback(t, "finish")
    /\ Advance(t, [tasks[t] EXCEPT
                     !.pc = "set_result",
                     !.result = [@ EXCEPT !.status = "completed",
                                          !.summary = TRUE,
                                          !.metadata = @ \cup {"processing_time"}],
                     !.cb = Some(Checkpoint("finish"))], FALSE)
    /\ UNCHANGED <<nextId, ingesting, clock, files>>
    /\ UNCHANGED fvars

\* pipeline.py 395-408: run_async's except clause.  The result is marked
\* failed and returned; writing {job_id}_error.txt may itself raise, and
\* then the exception leaves run_async
PipelineExcept(t) ==
    /\ At(t, "except")
    /\ LET r == [tasks[t].result EXCEPT !.status = "failed",
                                        !.errors = Append(@, tasks[t].exc)]
       IN  \/ /\ Advance(t, [tasks[t] EXCEPT !.pc = "set_result",
                                             !.result = r, !.exc = ""], FALSE)
              /\ files' = files \cup {<<tasks[t].job_id, "error_txt">>}
           \/ /\ Advance(t, [tasks[t] EXCEPT !.pc = "worker_except",
                                             !.result = r,
                                             !.exc = "error report not writable"],
                         FALSE)
              /\ files' = files
    /\ UNCHANGED <<jobs, nextId, ingesting, clock>>
    /\ UNCHANGED fvars

\* ------------------------------------------------ app/jobs/worker.py 34-57
\* the keys the worker copies into job.metadata
WorkerMetadata(result) ==
    (IF "clean_profile_path" \in result.metadata THEN {"clean_profile_path"} ELSE {})
    \cup (IF "processing_time" \in result.metadata THEN {"processing_time"} ELSE {})
    \cup (IF result.summary THEN {"summary"} ELSE {})

\* set_job_result, then the metadata when the job exists and the result's
\* metadata is not empty
WorkerSetResult(t) ==
    /\ At(t, "set_result")
    /\ LET j == tasks[t].job_id
           r == tasks[t].result
           js == set_job_result(jobs, j, r)
       IN  jobs' = IF j \in DOMAIN js /\ r.metadata # {}
                   THEN [js EXCEPT ![j].metadata = @ \cup WorkerMetadata(r)]
                   ELSE js
    /\ Advance(t, [tasks[t] EXCEPT !.pc = "mark_completed"], FALSE)
    /\ UNCHANGED <<nextId, ingesting, clock, files>>
    /\ UNCHANGED fvars

\* worker.py 59-61: whatever run_async returned, the job is marked completed
WorkerMarkCompleted(t) ==
    /\ At(t, "mark_completed")
    /\ jobs' = update_job_status(jobs, tasks[t].job_id, "completed", clock)
    /\ clock' = Tick(jobs, tasks[t].job_id, clock)
    /\ Advance(t, [tasks[t] EXCEPT !.pc = "done"], FALSE)
    /\ UNCHANGED <<nextId, ingesting, files>>
    /\ UNCHANGED fvars

\* worker.py 63-67: an exception that left run_async
WorkerExcept(t) ==
    /\ At(t, "worker_except")
    /\ jobs' = update_job_status(
                  add_job_error(jobs, tasks[t].job_id, tasks[t].exc),
                  tasks[t].job_id, "failed", clock)
    /\ clock' = Tick(jobs, tasks[t].job_id, clock)
    /\ Advance(t, [tasks[t] EXCEPT !.pc = "done"], FALSE)
    /\ UNCHANGED <<nextId, ingesting, files>>
    /\ UNCHANGED fvars


\* ---------------------------------------------------- app/api/ingest.py
\* ingest_data up to `await file.close()`: the job is created with an empty
\* file path and the upload is saved
Ingest(ext) ==
    /\ running = 0
    /\ nextId < MaxJobs
    /\ ext \in ValidExtensions
    /\ nextId' = nextId + 1
    /\ jobs' = [k \in DOMAIN jobs \cup {nextId + 1} |->
                   IF k = nextId + 1 THEN Job("", clock) ELSE jobs[k]]
    /\ files' = files \cup {<<nextId + 1, "upload">>}
    /\ ingesting' = ingesting \cup {<<nextId + 1, ext>>}
    /\ UNCHANGED <<clock, tasks, ready, running>>
    /\ UNCHANGED fvars

\* ingest_data after the await: the file path is stored if the job is still
\* in the registry
IngestFinish(job_id, ext) ==
    /\ running = 0
    /\ <<job_id, ext>> \in ingesting
    /\ ingesting' = ingesting \ {<<job_id, ext>>}
    /\ jobs' = IF job_id \in DOMAIN jobs
               THEN [jobs EXCEPT ![job_id].file_ext = ext] ELSE jobs
    /\ UNCHANGED <<nextId, clock, tasks, ready, running, files>>
    /\ UNCHANGED fvars

\* --------------------------------------------------- app/api/process.py
\* a handler that starts a run for any job of the registry
process_job_unchecked(job_id) ==
    IF job_id \notin DOMAIN jobs THEN 404 ELSE 200

\* process_job 41-54: the status code of the response; 404 for an unknown
\* job, 400 unless the job is pending
process_job(job_id) ==
    IF job_id \notin DOMAIN jobs THEN 404
    ELSE IF jobs[job_id].status # "pending" THEN 400
    ELSE 200

\* process_job: a rejected request raises before it touches anything; an
\* accepted one calls start_background_job: asyncio.create_task puts the
\* worker on the ready queue, and the status is still pending when the
\* handler returns
ProcessJob(job_id, config) ==
    /\ running = 0
    /\ \/ /\ process_job(job_id) = 200
          /\ Len(tasks) < MaxTasks
          /\ tasks' = Append(tasks, NewTask(job_id, jobs[job_id].file_ext, config))
          /\ ready' = Append(ready, Len(tasks) + 1)
       \/ /\ process_job(job_id) # 200
          /\ UNCHANGED <<tasks, ready>>
    /\ UNCHANGED <<jobs, nextId, ingesting, clock, running, files>>
    /\ UNCHANGED fvars

\* ------------------------------------------------ app/api/jobs.py 56-118
\* the files delete_job removes: the paths of the result and the metadata,
\* and the glob patterns uploads/{id}_*, outputs/{id}.*, errors/{id}_errors.*,
\* reports/{id}_*.*
DeletedFiles(job_id) ==
    {<<job_id, kind>> : kind \in {"upload", "output", "errors_report", "profile"}}

DeleteJob(job_id) ==
    /\ running = 0
    /\ job_id \in DOMAIN jobs
    /\ files' = files \ DeletedFiles(job_id)
    /\ jobs' = delete_job(jobs, job_id)
    /\ UNCHANGED <<nextId, ingesting, clock, tasks, ready, running>>
    /\ UNCHANGED fvars

\* ------------------------------------------------ app/services/filtering.py
(***************************************************************************)
(* A Python str is a tuple of one-character strings.  A Python value is a  *)
(* record tagged with its type.  NaN and NaT are None (<<>>); a parsed     *)
(* number or instant is <<v>>.  An instant is <<seconds, nanoseconds>>     *)
(* since the epoch.  A DataFrame is its column names, its column dtypes    *)
(* and its rows in order; a row keeps its index label `idx` through every  *)
(* selection, as df[mask] does.  A filters dict is the sequence of its     *)
(* <<key, rule>> items in insertion order.                                 *)
(***************************************************************************)
UpperCase ==
    <<"A", "B", "C", "D", "E", "F", "G", "H", "I", "J", "K", "L", "M",
      "N", "O", "P", "Q", "R", "S", "T", "U", "V", "W", "X", "Y", "Z">>
LowerCase ==
    <<"a", "b", "c", "d", "e", "f", "g", "h", "i", "j", "k", "l", "m",
      "n", "o", "p", "q", "r", "s", "t", "u", "v", "w", "x", "y", "z">>
Digits == <<"0", "1", "2", "3", "4", "5", "6", "7", "8", "9">>

LowerChar(c) ==
    IF \E i \in DOMAIN UpperCase : UpperCase[i] = c
    THEN LowerCase[CHOOSE i \in DOMAIN UpperCase : UpperCase[i] = c]
    ELSE c

\* str.lower()
Lower(s) == [i \in 1..Len(s) |-> LowerChar(s[i])]

\* str.strip()
Strip(s) ==
    LET inked == {i \in 1..Len(s) : s[i] # " "}
    IN  IF inked = {} THEN <<>>
        ELSE SubSeq(s, CHOOSE i \in inked : \A k \in inked : i <= k,
                       CHOOSE i \in inked : \A k \in inked : i >= k)

\* sub in s
Contains(s, sub) ==
    \E i \in 0..(Len(s) - Len(sub)) : SubSeq(s, i + 1, i + Len(sub)) = sub

\* s.startswith(prefix), s.endswith(suffix)
StartsWith(s, prefix) ==
    Len(prefix) <= Len(s) /\ SubSeq(s, 1, Len(prefix)) = prefix
EndsWith(s, suffix) ==
    Len(suffix) <= Len(s) /\ SubSeq(s, Len(s) - Len(suffix) + 1, Len(s)) = suffix

\* Python values
PyInt(n) == [t |-> "int", n |-> n]
PyStr(s) == [t |-> "str", s |-> s]
PyBool(b) == [t |-> "bool", b |-> b]
PyList(vs) == [t |-> "list", items |-> vs]
PyNone == [t |-> "none"]

IsDigit(c) == \E i \in DOMAIN Digits : Digits[i] = c
DigitValue(c) == (CHOOSE i \in DOMAIN Digits : Digits[i] = c) - 1
IsDigits(s) == Len(s) > 0 /\ \A i \in 1..Len(s) : IsDigit(s[i])

RECURSIVE DigitsValue(_)
DigitsValue(s) ==
    IF Len(s) = 0 THEN 0
    ELSE 10 * DigitsValue(SubSeq(s, 1, Len(s) - 1)) + DigitValue(s[Len(s)])

RECURSIVE DigitsOf(_)
DigitsOf(n) ==
    IF n < 10 THEN <<Digits[n + 1]>>
    ELSE Append(DigitsOf(n \div 10), Digits[(n % 10) + 1])

\* str(x), Series.astype(str): non-negative integers, booleans, None, str
StrOf(x) ==
    CASE x.t = "str" -> x.s
      [] x.t = "int" -> DigitsOf(x.n)
      [] x.t = "bool" -> IF x.b THEN <<"T", "r", "u", "e">>
                                ELSE <<"F", "a", "l", "s", "e">>
      [] x.t = "none" -> <<"N", "o", "n", "e">>

\* bool(x)
Truthy(x) ==
    CASE x.t = "bool" -> x.b
      [] x.t = "int" -> x.n # 0
      [] x.t = "str" -> Len(x.s) > 0
      [] x.t = "list" -> Len(x.items) > 0
      [] x.t = "none" -> FALSE

\* pd.to_numeric(x, errors="coerce") of a scalar or of one cell: a number
\* is itself, a boolean is 0 or 1, a string of decimal digits is its value,
\* anything else is NaN
ToNumeric(x) ==
    CASE x.t = "int" -> Some(x.n)
      [] x.t = "bool" -> Some(IF x.b THEN 1 ELSE 0)
      [] x.t = "str" -> IF IsDigits(x.s) THEN Some(DigitsValue(x.s)) ELSE None
      [] OTHER -> None

IsLeap(y) == (y % 4 = 0 /\ y % 100 # 0) \/ y % 400 = 0
DaysInMonth(y, m) ==
    IF m = 2 THEN (IF IsLeap(y) THEN 29 ELSE 28)
    ELSE IF m \in {4, 6, 9, 11} THEN 30 ELSE 31

\* days from 1970-01-01 to a date of the proleptic Gregorian calendar
DaysFromCivil(y, m, d) ==
    LET yy == IF m <= 2 THEN y - 1 ELSE y
        era == yy \div 400
        yoe == yy - era * 400
        doy == (153 * (IF m > 2 THEN m - 3 ELSE m + 9) + 2) \div 5 + d - 1
        doe == yoe * 365 + yoe \div 4 - yoe \div 100 + doy
    IN  era * 146097 + doe - 719468

SecondsPerDay == 86400

\* a string "YYYY-MM-DD" naming a day from 1970 to 2037 is midnight of that
\* day; any other string of the model is not a date
ParseDate(s) ==
    IF /\ Len(s) = 10
       /\ s[5] = "-" /\ s[8] = "-"
       /\ \A i \in {1, 2, 3, 4, 6, 7, 9, 10} : IsDigit(s[i])
    THEN LET y == DigitsValue(SubSeq(s, 1, 4))
             m == DigitsValue(SubSeq(s, 6, 7))
             d == DigitsValue(SubSeq(s, 9, 10))
         IN  IF /\ y \in 1970..2037
                /\ m \in 1..12
                /\ d \in 1..DaysInMonth(y, m)
             THEN Some(<<DaysFromCivil(y, m, d) * SecondsPerDay, 0>>)
             ELSE None
    ELSE None

\* pd.to_datetime(x, errors="coerce") of a scalar or of one cell of an
\* object or integer column: an integer is that many nanoseconds after the
\* epoch, a string is parsed, a boolean or None is NaT
ToDatetime(x) ==
    CASE x.t = "int" -> Some(<<0, x.n>>)
      [] x.t = "str" -> ParseDate(x.s)
      [] OTHER -> None

\* a <= b on instants
InstantLeq(a, b) == a[1] < b[1] \/ (a[1] = b[1] /\ a[2] <= b[2])

\* the cells of one column, top to bottom
Series(df, column) ==
    [i \in 1..Len(df.rows) |-> df.rows[i].cells[column]]

\* more than 60% of the n cells
MostOf(count, n) == count * 10 > n * 6

\* the position of the column, 0 for None
_resolve_column(df, key) ==
    LET k == Strip(Lower(key))
        Match(c) == LET col_l == Lower(df.columns[c])
                    IN  k = col_l \/ Contains(col_l, k) \/ Contains(k, col_l)
        hits == {c \in DOMAIN df.columns : Match(c)}
    IN  IF hits = {} THEN 0
        ELSE CHOOSE c \in hits : \A h \in hits : c <= h

_detect_column_type(df, column) ==
    LET series == Series(df, column)
        parsed == {i \in DOMAIN series : ToDatetime(series[i]) # None}
    IN  IF df.dtypes[column] = "bool" THEN "boolean"
        ELSE IF df.dtypes[column] = "int64" THEN "numeric"
        ELSE IF MostOf(Cardinality(parsed), Len(series)) THEN "datetime"
        ELSE "text"

\* rule.get(name)
Get(rule, name) == IF name \in DOMAIN rule THEN rule[name] ELSE PyNone

\* isinstance(rule, dict)
IsDict(rule) == "t" \notin DOMAIN rule

\* rule.get("op"); the empty string stands for a missing op
OpOf(rule) == IF "op" \in DOMAIN rule THEN rule.op ELSE ""

_apply_text_search(df, value) ==
    LET needle == Strip(Lower(StrOf(value)))
        Hit(row) == \E c \in DOMAIN df.columns :
                        Contains(Lower(StrOf(row.cells[c])), needle)
    IN  IF needle = <<>> THEN df
        ELSE [df EXCEPT !.rows = SelectSeq(df.rows, Hit)]

\* the first column, left to right, with more than 60% of its cells among
\* the parsed <<column, row>> cells
FirstColumn(df, parsed) ==
    LET n == Len(df.rows)
        good == {c \in DOMAIN df.columns :
                    MostOf(Cardinality({i \in 1..n : <<c, i>> \in parsed}), n)}
    IN  IF good = {} THEN 0 ELSE CHOOSE c \in good : \A g \in good : c <= g

\* to_datetime rejects (or blanks) a boolean column
_apply_date_range(df, start, end) ==
    LET start_dt == ToDatetime(start)
        end_dt == ToDatetime(end)
        parsed == {ci \in (DOMAIN df.columns) \X (DOMAIN df.rows) :
                      /\ df.dtypes[ci[1]] # "bool"
                      /\ ToDatetime(df.rows[ci[2]].cells[ci[1]]) # None}
        col == FirstColumn(df, parsed)
        Within(row) == LET s == ToDatetime(row.cells[col])
                       IN  /\ s # None
                           /\ InstantLeq(start_dt[1], s[1])
                           /\ InstantLeq(s[1], end_dt[1])
    IN  IF start_dt = None \/ end_dt = None THEN df
        ELSE IF col = 0 THEN df
        ELSE [df EXCEPT !.rows = SelectSeq(df.rows, Within)]

_apply_numeric_range(df, min, max) ==
    LET min_v == ToNumeric(min)
        max_v == ToNumeric(max)
        parsed == {ci \in (DOMAIN df.columns) \X (DOMAIN df.rows) :
                      ToNumeric(df.rows[ci[2]].cells[ci[1]]) # None}
        col == FirstColumn(df, parsed)
        Within(row) == LET s == ToNumeric(row.cells[col])
                       IN  /\ s # None
                           /\ min_v[1] <= s[1]
                           /\ s[1] <= max_v[1]
    IN  IF min_v = None \/ max_v = None THEN df
        ELSE IF col = 0 THEN df
        ELSE [df EXCEPT !.rows = SelectSeq(df.rows, Within)]

\* filters.get(key): 0 when the key is absent
ItemOf(filters, key) ==
    LET at == {i \in DOMAIN filters : filters[i][1] = key}
    IN  IF at = {} THEN 0 ELSE CHOOSE i \in at : TRUE

TextSearchKey == <<"_", "t", "e", "x", "t", "S", "e", "a", "r", "c", "h">>
DateRangeKey == <<"_", "d", "a", "t", "e", "R", "a", "n", "g", "e">>
NumericRangeKey ==
    <<"_", "n", "u", "m", "e", "r", "i", "c", "R", "a", "n", "g", "e">>

\* lines 95-100, 102-107, 109-114
TextSearchFilter(df, filters) ==
    LET i == ItemOf(filters, TextSearchKey)
    IN  IF i # 0 /\ OpOf(filters[i][2]) = "contains"
        THEN _apply_text_search(df, Get(filters[i][2], "value"))
        ELSE df

DateRangeFilter(df, filters) ==
    LET i == ItemOf(filters, DateRangeKey)
    IN  IF i # 0 /\ OpOf(filters[i][2]) \in {"range", "between"}
        THEN _apply_date_range(df, Get(filters[i][2], "start"),
                                   Get(filters[i][2], "end"))
        ELSE df

NumericRangeFilter(df, filters) ==
    LET i == ItemOf(filters, NumericRangeKey)
    IN  IF i # 0 /\ OpOf(filters[i][2]) = "between"
        THEN _apply_numeric_range(df, Get(filters[i][2], "min"),
                                      Get(filters[i][2], "max"))
        ELSE df

GlobalFilters(df, filters) ==
    NumericRangeFilter(DateRangeFilter(TextSearchFilter(df, filters), filters),
                       filters)

\* eval(f"s {op} v") on numbers
Compare(op, s, v) ==
    CASE op = ">" -> s > v
      [] op = ">=" -> s >= v
      [] op = "<" -> s < v
      [] op = "<=" -> s <= v

\* lines 134-149: the column has an integer dtype, so every cell is a number
NumericRule(df, column, rule) ==
    LET op == OpOf(rule)
        v == ToNumeric(Get(rule, "value"))
        min_v == ToNumeric(Get(rule, "min"))
        max_v == ToNumeric(Get(rule, "max"))
        s(row) == ToNumeric(row.cells[column])[1]
        Ordered(row) == Compare(op, s(row), v[1])
        Equal(row) == v # None /\ s(row) = v[1]
        Between(row) == /\ min_v # None /\ max_v # None
                        /\ min_v[1] <= s(row) /\ s(row) <= max_v[1]
    IN  IF op \in {">", ">=", "<", "<="}
        THEN IF v # None
             THEN [df EXCEPT !.rows = SelectSeq(df.rows, Ordered)]
             ELSE df
        ELSE IF op \in {"equals", "=="}
        THEN [df EXCEPT !.rows = SelectSeq(df.rows, Equal)]
        ELSE IF op = "between"
        THEN [df EXCEPT !.rows = SelectSeq(df.rows, Between)]
        ELSE df

\* lines 152-162: a comparison with NaT on either side is False
DatetimeRule(df, column, rule) ==
    LET op == OpOf(rule)
        start == ToDatetime(Get(rule, "start"))
        end == ToDatetime(Get(rule, "end"))
        v == ToDatetime(Get(rule, "value"))
        s(row) == ToDatetime(row.cells[column])
        InRange(row) == /\ s(row) # None /\ start # None /\ end # None
                        /\ InstantLeq(start[1], s(row)[1])
                        /\ InstantLeq(s(row)[1], end[1])
        Equal(row) == s(row) # None /\ v # None /\ s(row) = v
    IN  IF op \in {"range", "between"}
        THEN [df EXCEPT !.rows = SelectSeq(df.rows, InRange)]
        ELSE IF op \in {"equals", "=="}
        THEN [df EXCEPT !.rows = SelectSeq(df.rows, Equal)]
        ELSE df

\* lines 165-167: the op is not read
BooleanRule(df, column, rule) ==
    LET v == Truthy(Get(rule, "value"))
        Equal(row) == row.cells[column].b = v
    IN  [df EXCEPT !.rows = SelectSeq(df.rows, Equal)]

\* [str(v).lower() for v in rule.get("value", [])]: a list gives its
\* elements, a str its characters, an absent value nothing; iterating
\* anything else raises
InValues(rule) ==
    LET value == Get(rule, "value")
    IN  IF "value" \notin DOMAIN rule THEN {}
        ELSE IF value.t = "list"
        THEN {Lower(StrOf(value.items[i])) : i \in DOMAIN value.items}
        ELSE {<<LowerChar(value.s[i])>> : i \in DOMAIN value.s}

Iterable(rule) ==
    "value" \notin DOMAIN rule \/ Get(rule, "value").t \in {"list", "str"}

\* lines 170-197
TextRule(df, column, rule) ==
    LET op == OpOf(rule)
        value == StrOf(Get(rule, "value"))
        s(row) == Strip(StrOf(row.cells[column]))
        Equal(row) == Lower(s(row)) = Lower(value)
        Has(row) == Contains(Lower(s(row)), Lower(value))
        Starts(row) == StartsWith(s(row), value)
        Ends(row) == EndsWith(s(row), value)
        In(row) == Lower(s(row)) \in InValues(rule)
    IN  IF op \in {"equals", "=="}
        THEN [df EXCEPT !.rows = SelectSeq(df.rows, Equal)]
        ELSE IF op = "contains"
        THEN [df EXCEPT !.rows = SelectSeq(df.rows, Has)]
        ELSE IF op = "starts_with"
        THEN [df EXCEPT !.rows = SelectSeq(df.rows, Starts)]
        ELSE IF op = "ends_with"
        THEN [df EXCEPT !.rows = SelectSeq(df.rows, Ends)]
        ELSE IF op = "in"
        THEN IF Iterable(rule)
             THEN [df EXCEPT !.rows = SelectSeq(df.rows, In)]
             ELSE df
        ELSE df

\* one turn of the loop of lines 117-200
ColumnRule(df, key, rule) ==
    IF StartsWith(key, <<"_">>) THEN df
    ELSE IF ~IsDict(rule) THEN df
    ELSE LET column == _resolve_column(df, key)
         IN  IF column = 0 THEN df
             ELSE LET col_type == _detect_column_type(df, column)
                  IN  CASE col_type = "numeric" -> NumericRule(df, column, rule)
                        [] col_type = "datetime" -> DatetimeRule(df, column, rule)
                        [] col_type = "boolean" -> BooleanRule(df, column, rule)
                        [] OTHER -> TextRule(df, column, rule)

RECURSIVE ColumnFilters(_, _, _)
ColumnFilters(df, filters, i) ==
    IF i > Len(filters) THEN df
    ELSE ColumnFilters(ColumnRule(df, filters[i][1], filters[i][2]),
                       filters, i + 1)

apply_filters(df, filters) ==
    IF Len(df.rows) = 0 \/ Len(filters) = 0 THEN df
    ELSE ColumnFilters(GlobalFilters(df, filters), filters, 1)

\* ------------------------------------------- frames and filters of the model
MaxRows == 2

\* a table as the pipeline hands it to apply_filters: an object column of
\* strings, an integer column and a boolean column
Columns == << <<"w", "h", "e", "n">>, <<"A", "g", "e">>, <<"f", "l", "a", "g">> >>
Dtypes == <<"object", "int64", "bool">>

Abc == <<"a", "b", "c">>
Day2020 == <<"2", "0", "2", "0", "-", "0", "1", "-", "0", "1">>
Day2021 == <<"2", "0", "2", "1", "-", "0", "6", "-", "3", "0">>

CellValues ==
    << {PyStr(Day2020), PyStr(Abc)}, {PyInt(1), PyInt(2)}, {PyBool(TRUE), PyBool(FALSE)} >>

RowCells == {<<w, a, f>> : w \in CellValues[1], a \in CellValues[2],
                           f \in CellValues[3]}

DataFrame(cells) ==
    [columns |-> Columns,
     dtypes |-> Dtypes,
     rows |-> [i \in 1..Len(cells) |-> [idx |-> i - 1, cells |-> cells[i]]]]

Frames ==
    {DataFrame(cells) : cells \in UNION {[1..n -> RowCells] : n \in 0..MaxRows}}

EmptyFrame == DataFrame(<<>>)

\* keys: the three columns, a fragment of a column name, a padded upper-case
\* name, a name that contains a column name, and a name of no column
ColumnKeys ==
    { <<"w", "h", "e", "n">>, <<"a", "g", "e">>, <<"f", "l", "a", "g">>,
      <<"a", "g">>, <<" ", "A", "G", "E", " ">>,
      <<"f", "l", "a", "g", "_", "o", "k">>, <<"z", "i", "p">> }

Ops ==
    {">", ">=", "<", "<=", "equals", "==", "between", "range", "contains",
     "starts_with", "ends_with", "in", "like"}

Operands ==
    {PyInt(1), PyInt(2), PyStr(<<"1">>), PyStr(Abc), PyStr(Day2020), PyBool(TRUE),
     PyBool(FALSE)}

Bounds ==
    { <<PyInt(1), PyInt(1)>>, <<PyInt(1), PyInt(2)>>, <<PyStr(Abc), PyInt(2)>>,
      <<PyStr(Day2020), PyStr(Day2020)>>, <<PyStr(Day2021), PyStr(Day2021)>>,
      <<PyStr(Day2020), PyStr(Abc)>> }

\* the rules a request can carry for a column
Rules ==
    {[op |-> op, value |-> v] : op \in Ops \ {"in"}, v \in Operands}
    \cup {[op |-> op, min |-> b[1], max |-> b[2]] : op \in {"between"},
                                                    b \in Bounds}
    \cup {[op |-> op, start |-> b[1], end |-> b[2]] : op \in {"between", "range"},
                                                      b \in Bounds}
    \cup {[op |-> "in", value |-> v] :
            v \in {PyList(<<PyStr(Abc)>>), PyList(<<PyStr(Day2020), PyInt(1)>>), PyStr(Abc)}}
    \cup {[op |-> "=="], [value |-> PyInt(1)], PyInt(1)}

GlobalItems ==
    {<<TextSearchKey, [op |-> op, value |-> v]>> :
        op \in {"contains", "equals"}, v \in {PyStr(Abc), PyStr(<<"1">>), PyStr(<<" ">>)}}
    \cup {<<DateRangeKey, [op |-> op, start |-> b[1], end |-> b[2]]>> :
            op \in {"between", "range", "=="}, b \in Bounds}
    \cup {<<NumericRangeKey, [op |-> op, min |-> b[1], max |-> b[2]]>> :
            op \in {"between", "range"}, b \in Bounds}

Items == {<<key, rule>> : key \in ColumnKeys, rule \in Rules} \cup GlobalItems

\* the items that requests combine two at a time
PairKeys ==
    { <<"w", "h", "e", "n">>, <<"a", "g", "e">>, <<"a", "g">>,
      <<"f", "l", "a", "g">>, <<"z", "i", "p">> }
PairRules ==
    { [op |-> "==", value |-> PyInt(1)],
      [op |-> ">", value |-> PyInt(1)],
      [op |-> "==", value |-> PyStr(Abc)],
      [op |-> "contains", value |-> PyStr(Abc)],
      [op |-> "between", start |-> PyStr(Day2021), end |-> PyStr(Day2021)],
      [op |-> ">", value |-> PyBool(TRUE)] }
PairItems ==
    {<<key, rule>> : key \in PairKeys, rule \in PairRules}
    \cup { <<TextSearchKey, [op |-> "contains", value |-> PyStr(<<"1">>)]>>,
           <<DateRangeKey, [op |-> "between", start |-> PyStr(Day2020),
                            end |-> PyStr(Day2020)]>>,
           <<NumericRangeKey, [op |-> "between", min |-> PyInt(1),
                               max |-> PyInt(1)]>> }

\* a dict has each key once
FilterDicts ==
    {<<p>> : p \in Items}
    \cup {pq \in PairItems \X PairItems : pq[1][1] # pq[2][1]}

\* the row labels of a frame
Index(df) == {df.rows[i].idx : i \in DOMAIN df.rows}

\* no call of apply_filters is in progress
FilterIdle ==
    /\ f_df = EmptyFrame
    /\ f_filters = <<>>
    /\ f_out = None
    /\ f_chain = EmptyFrame
    /\ f_applied = <<>>

\* nor a call of any other transform
NoFilterCall ==
    /\ FilterIdle
    /\ fn_in = None
    /\ fn_out = None

\* pipeline.py 198-201: filtered = apply_filters(df, filters)
ApplyFilters ==
    /\ f_out = None
    /\ f_out' = Some(apply_filters(f_df, f_filters))
    /\ UNCHANGED <<f_df, f_filters, f_chain, f_applied, fn_in, fn_out>>
    /\ UNCHANGED jvars

\* a caller that applies the items one request at a time, in any order,
\* feeding each result to the next call
ApplyOne(i) ==
    /\ i \in DOMAIN f_filters
    /\ \A k \in DOMAIN f_applied : f_applied[k] # i
    /\ f_chain' = apply_filters(f_chain, <<f_filters[i]>>)
    /\ f_applied' = Append(f_applied, i)
    /\ UNCHANGED <<f_df, f_filters, f_out, fn_in, fn_out>>
    /\ UNCHANGED jvars

\* ------------------------------------------------------- specifications
TaskIds == 1..Len(tasks)

\* the server: an empty registry, requests arriving at any time
Init ==
    /\ jobs = <<>>
    /\ nextId = 0
    /\ ingesting = {}
    /\ clock = 1
    /\ tasks = <<>>
    /\ ready = <<>>
    /\ running = 0
    /\ files = {}
    /\ NoFilterCall

Next ==
    \/ \E ext \in UploadExtensions : Ingest(ext)
    \/ \E j \in JobIds, ext \in UploadExtensions : IngestFinish(j, ext)
    \/ \E j \in JobIds, config \in ProcessConfigs : ProcessJob(j, config)
    \/ \E j \in JobIds : DeleteJob(j)
    \/ Schedule
    \/ \E t \in TaskSlots : WorkerStart(t)
    \/ \E t \in TaskSlots : Parse(t)
    \/ \E t \in TaskSlots : Normalize(t)
    \/ \E t \in TaskSlots : EnforceTypes(t)
    \/ \E t \in TaskSlots : HandleMissing(t)
    \/ \E t \in TaskSlots : Filter(t)
    \/ \E t \in TaskSlots : Noise(t)
    \/ \E t \in TaskSlots : Validate(t)
    \/ \E t \in TaskSlots : Profile(t)
    \/ \E t \in TaskSlots : Vectorize(t)
    \/ \E t \in TaskSlots : WriteOutput(t)
    \/ \E t \in TaskSlots : Finish(t)
    \/ \E t \in TaskSlots : PipelineExcept(t)
    \/ \E t \in TaskSlots : WorkerSetResult(t)
    \/ \E t \in TaskSlots : WorkerMarkCompleted(t)
    \/ \E t \in TaskSlots : WorkerExcept(t)

Spec == Init /\ [][Next]_vars

\* one call of process_job_async for a pending job, with any file path the
\* registry can hold and any configuration run_async recognises
InitRun ==
    \E ext \in ValidExtensions \cup {""}, config \in RunConfigs :
        /\ jobs = (1 :> [Job(ext, 1) EXCEPT !.file_ext = ext])
        /\ nextId = 1
        /\ ingesting = {}
        /\ clock = 2
        /\ tasks = <<NewTask(1, ext, config)>>
        /\ ready = <<1>>
        /\ running = 0
        /\ files = {<<1, "upload">>}
        /\ NoFilterCall

NextRun ==
    \/ Schedule
    \/ \E t \in TaskSlots : WorkerStart(t)
    \/ \E t \in TaskSlots : Parse(t)
    \/ \E t \in TaskSlots : Normalize(t)
    \/ \E t \in TaskSlots : EnforceTypes(t)
    \/ \E t \in TaskSlots : HandleMissing(t)
    \/ \E t \in TaskSlots : Filter(t)
    \/ \E t \in TaskSlots : Noise(t)
    \/ \E t \in TaskSlots : Validate(t)
    \/ \E t \in TaskSlots : Profile(t)
    \/ \E t \in TaskSlots : Vectorize(t)
    \/ \E t \in TaskSlots : WriteOutput(t)
    \/ \E t \in TaskSlots : Finish(t)
    \/ \E t \in TaskSlots : PipelineExcept(t)
    \/ \E t \in TaskSlots : WorkerSetResult(t)
    \/ \E t \in TaskSlots : WorkerMarkCompleted(t)
    \/ \E t \in TaskSlots : WorkerExcept(t)

SpecRun == InitRun /\ [][NextRun]_vars

\* one call of apply_filters on any frame and any filters dict of the model,
\* next to a caller that applies the same items one call at a time
ItemSlots == 1..MaxItems

InitFilter ==
    /\ jobs = <<>>
    /\ nextId = 0
    /\ ingesting = {}
    /\ clock = 1
    /\ tasks = <<>>
    /\ ready = <<>>
    /\ running = 0
    /\ files = {}
    /\ f_df \in Frames
    /\ f_filters \in FilterDicts
    /\ f_out = None
    /\ f_chain = f_df
    /\ f_applied = <<>>
    /\ fn_in = None
    /\ fn_out = None

NextFilter ==
    \/ ApplyFilters
    \/ \E i \in ItemSlots : ApplyOne(i)

SpecFilter == InitFilter /\ [][NextFilter]_vars


\* ------------------------------------------ _resolve_column on column lists
\* the registry of a server that has received no request
NoJobs ==
    /\ jobs = <<>>
    /\ nextId = 0
    /\ ingesting = {}
    /\ clock = 1
    /\ tasks = <<>>
    /\ ready = <<>>
    /\ running = 0
    /\ files = {}

MaxColumns == 3

\* column names and keys that equal, contain and are contained in one another
ColumnNames ==
    { <<"n", "a", "m", "e">>, <<"N", "a", "m", "e">>,
      <<"u", "s", "e", "r", "n", "a", "m", "e">>, <<"n", "a">>,
      <<"a", "g", "e">> }
ResolveKeys ==
    { <<"n", "a", "m", "e">>, <<" ", "N", "A", "M", "E", " ">>,
      <<"u", "s", "e", "r">>, <<"a", "g", "e">>, <<"n", "a", "m">>,
      <<"z", "i", "p">> }

ColumnLists == UNION {[1..n -> ColumnNames] : n \in 1..MaxColumns}

\* one call _resolve_column(df, key); only df.columns is read
InitResolve ==
    /\ NoJobs
    /\ FilterIdle
    /\ fn_in \in {[columns |-> cols, key |-> key] :
                    cols \in ColumnLists, key \in ResolveKeys}
    /\ fn_out = None

ResolveColumn ==
    /\ fn_out = None
    /\ fn_out' = Some(_resolve_column(fn_in, fn_in.key))
    /\ UNCHANGED <<f_df, f_filters, f_out, f_chain, f_applied, fn_in>>
    /\ UNCHANGED jvars

NextResolve == ResolveColumn

SpecResolve == InitResolve /\ [][NextResolve]_vars


\* ---------------------------------------------------- app/services/noise.py
\* the elements of seq at the positions in keep, in order: df[mask]
Pick(seq, keep) ==
    LET Picked[i \in 0..Len(seq)] ==
            IF i = 0 THEN <<>>
            ELSE IF i \in keep THEN Append(Picked[i - 1], seq[i])
            ELSE Picked[i - 1]
    IN  Picked[Len(seq)]

\* reset_index(drop=True)
ResetIndex(df) ==
    [df EXCEPT !.rows = [i \in 1..Len(df.rows) |->
                            [df.rows[i] EXCEPT !.idx = i - 1]]]

DuplicatedKeepLast(keys, i) == \E j \in (i + 1)..Len(keys) : keys[j] = keys[i]

\* Series.duplicated() and drop_duplicates(), keep="first": the i-th key
\* repeats an earlier one
Duplicated(keys, i) == \E j \in 1..(i - 1) : keys[j] = keys[i]

\* lambda x: str(x).strip().lower() if pd.notna(x) else ""
NormalizedCell(x) == IF x.t = "none" THEN <<>> ELSE Lower(Strip(StrOf(x)))

\* sep.join(parts)
Join(sep, parts) ==
    LET Joined[i \in 0..Len(parts)] ==
            IF i = 0 THEN <<>>
            ELSE IF i = 1 THEN parts[1]
            ELSE Joined[i - 1] \o sep \o parts[i]
    IN  Joined[Len(parts)]

\* lines 29-36
Fingerprint(cells) ==
    Join(<<"|">>, [c \in DOMAIN cells |-> NormalizedCell(cells[c])])

\* lines 11-43; nothing in the try block raises on the frames of the model
remove_duplicates(df) ==
    LET n == Len(df.rows)
        exact == [i \in 1..n |-> df.rows[i].cells]
        df_deduped == Pick(df.rows, {i \in 1..n : ~Duplicated(exact, i)})
        fingerprint == [i \in 1..n |-> Fingerprint(df.rows[i].cells)]
        fuzzy == Pick(df.rows, {i \in 1..n : ~Duplicated(fingerprint, i)})
    IN  IF n = 0 THEN df
        ELSE IF n - Len(df_deduped) = 0
        THEN ResetIndex([df EXCEPT !.rows = fuzzy])
        ELSE ResetIndex([df EXCEPT !.rows = df_deduped])

\* tables of names and ages: names that differ by case and by surrounding
\* blanks, a missing name
MaxDedupeRows == 3

Jo == <<"J", "o">>
DedupeColumns == << <<"n", "a", "m", "e">>, <<"a", "g", "e">> >>
DedupeCells ==
    {<<name, age>> :
        name \in {PyStr(Jo), PyStr(<<" ", "j", "o", " ">>), PyStr(<<"J", "O">>),
                  PyStr(<<"A", "l">>), PyNone},
        age \in {PyInt(25), PyInt(30)}}

DedupeFrame(cells) ==
    [columns |-> DedupeColumns,
     dtypes |-> <<"object", "int64">>,
     rows |-> [i \in 1..Len(cells) |-> [idx |-> i - 1, cells |-> cells[i]]]]

DedupeFrames ==
    {DedupeFrame(cells) :
        cells \in UNION {[1..n -> DedupeCells] : n \in 0..MaxDedupeRows}}

\* one call remove_duplicates(df)
InitDedupe ==
    /\ NoJobs
    /\ FilterIdle
    /\ fn_in \in DedupeFrames
    /\ fn_out = None

RemoveDuplicates ==
    /\ fn_out = None
    /\ fn_out' = Some(remove_duplicates(fn_in))
    /\ UNCHANGED <<f_df, f_filters, f_out, f_chain, f_applied, fn_in>>
    /\ UNCHANGED jvars

NextDedupe == RemoveDuplicates

SpecDedupe == InitDedupe /\ [][NextDedupe]_vars


\* ------------------------------------------------------- remove_outliers
\* the position of a column name, 0 when `col not in df.columns`
ColumnAt(df, col) ==
    LET at == {c \in DOMAIN df.columns : df.columns[c] = col}
    IN  IF at = {} THEN 0 ELSE CHOOSE c \in at : \A d \in at : c <= d

\* pd.to_numeric(df[col], errors="coerce"), top to bottom
NumericSeries(df, c) ==
    [i \in 1..Len(df.rows) |-> ToNumeric(df.rows[i].cells[c])]

\* the non-null numbers of a series
NotNa(series) == {i \in DOMAIN series : series[i] # None}

\* the non-null numbers of a series in ascending order
SortedValues(series) ==
    LET at == NotNa(series)
        Below(v) == Cardinality({i \in at : series[i][1] < v})
        UpTo(v) == Cardinality({i \in at : series[i][1] <= v})
    IN  [k \in 1..Cardinality(at) |->
            CHOOSE v \in {series[i][1] : i \in at} : Below(v) < k /\ k <= UpTo(v)]

\* four times series.quantile(quarters / 4): linear interpolation between
\* the two order statistics around position (n - 1) * quarters / 4
Quantile4(series, quarters) ==
    LET s == SortedValues(series)
        pos4 == (Len(s) - 1) * quarters
        k == pos4 \div 4
        r == pos4 % 4
    IN  IF r = 0 THEN 4 * s[k + 1]
        ELSE 4 * s[k + 1] + r * (s[k + 2] - s[k + 1])

\* lines 66-68: the columns that are mostly numbers
NumericLike(df) ==
    LET n == Len(df.rows)
        good == {c \in DOMAIN df.columns :
                    MostOf(Cardinality(NotNa(NumericSeries(df, c))), n)}
    IN  Pick([c \in DOMAIN df.columns |-> df.columns[c]], good)

\* line 77
Sparse(series) ==
    \/ Cardinality(NotNa(series)) < 10
    \/ Cardinality({series[i][1] : i \in NotNa(series)}) <= 2

IqrBoundsWide8(q1_4, q3_4) ==
    <<2 * q1_4 - 6 * (q3_4 - q1_4), 2 * q3_4 + 6 * (q3_4 - q1_4)>>

\* lines 87-88, eight times over: q1 - 1.5 * iqr and q3 + 1.5 * iqr from
\* four times q1 and four times q3
IqrBounds8(q1_4, q3_4) ==
    <<2 * q1_4 - 3 * (q3_4 - q1_4), 2 * q3_4 + 3 * (q3_4 - q1_4)>>

\* one turn of the loop of lines 70-92
OutlierColumn(df, col) ==
    LET c == ColumnAt(df, col)
        series == NumericSeries(df, c)
        q1_4 == Quantile4(series, 1)
        q3_4 == Quantile4(series, 3)
        bounds == IqrBounds8(q1_4, q3_4)
        mask == {i \in NotNa(series) :
                    /\ 8 * series[i][1] >= bounds[1]
                    /\ 8 * series[i][1] <= bounds[2]}
    IN  IF c = 0 THEN df
        ELSE IF Sparse(series) THEN df
        ELSE IF q3_4 - q1_4 = 0 THEN df
        ELSE [df EXCEPT !.rows = Pick(df.rows, mask)]

\* the frame after the first k of the columns
OutlierLoop(df, columns, k) ==
    LET After[i \in 0..k] ==
            IF i = 0 THEN df ELSE OutlierColumn(After[i - 1], columns[i])
    IN  After[k]

\* lines 56-97; nothing in the try block raises on the frames of the model
remove_outliers(df, columns) ==
    LET selected == IF columns = None THEN NumericLike(df) ELSE columns
    IN  IF Len(df.rows) = 0 THEN df
        ELSE ResetIndex(OutlierLoop(df, selected, Len(selected)))

\* tables of two numeric columns, the second with missing values; a table
\* is so many rows of each kind, kind after kind
MaxOutlierRows == 10

ColX == <<"x">>
ColY == <<"y">>
OutlierColumns == <<ColX, ColY>>
RowKinds ==
    << <<PyInt(1), PyInt(5)>>, <<PyInt(2), PyInt(6)>>, <<PyInt(3), PyInt(7)>>,
       <<PyInt(5), PyInt(6)>>, <<PyInt(50), PyInt(90)>>, <<PyInt(2), PyNone>> >>

RECURSIVE Repeat(_, _)
Repeat(x, n) == IF n = 0 THEN <<>> ELSE <<x>> \o Repeat(x, n - 1)

OutlierFrame(counts) ==
    LET Cells[k \in 0..Len(RowKinds)] ==
            IF k = 0 THEN <<>>
            ELSE Cells[k - 1] \o Repeat(RowKinds[k], counts[k])
        cells == Cells[Len(RowKinds)]
    IN  [columns |-> OutlierColumns,
         dtypes |-> <<"int64", "float64">>,
         rows |-> [i \in 1..Len(cells) |-> [idx |-> i - 1, cells |-> cells[i]]]]

RECURSIVE Sum(_, _)
Sum(counts, k) == IF k = 0 THEN 0 ELSE counts[k] + Sum(counts, k - 1)

OutlierFrames ==
    {OutlierFrame(counts) :
        counts \in {cs \in [DOMAIN RowKinds -> 0..MaxOutlierRows] :
                       Sum(cs, Len(RowKinds)) \in {0, MaxOutlierRows - 1,
                                                   MaxOutlierRows}}}

\* the `columns` argument: absent, or a list of names
ColumnArguments == {None, <<ColY>>, <<ColY, ColX>>, <<<<"z">>, ColX>>}

\* one call remove_outliers(df, columns)
InitOutliers ==
    /\ NoJobs
    /\ FilterIdle
    /\ fn_in \in {[df |-> df, columns |-> columns] :
                    df \in OutlierFrames, columns \in ColumnArguments}
    /\ fn_out = None

RemoveOutliers ==
    /\ fn_out = None
    /\ fn_out' = Some(remove_outliers(fn_in.df, fn_in.columns))
    /\ UNCHANGED <<f_df, f_filters, f_out, f_chain, f_applied, fn_in>>
    /\ UNCHANGED jvars

NextOutliers == RemoveOutliers

SpecOutliers == InitOutliers /\ [][NextOutliers]_vars


\* --------------------------------------------- app/services/normalization.py
\* a character that \w matches
IsWordChar(c) ==
    \/ \E i \in DOMAIN LowerCase : LowerCase[i] = c \/ UpperCase[i] = c
    \/ IsDigit(c)
    \/ c = "_"

\* re.sub(r"[^\w]+", "_", s) followed by re.sub(r"_+", "_", s): every run
\* of underscores and other non-word characters becomes one underscore
Slug(s) ==
    LET Gap(i) == ~IsWordChar(s[i]) \/ s[i] = "_"
        Out[i \in 0..Len(s)] ==
            IF i = 0 THEN <<>>
            ELSE IF ~Gap(i) THEN Append(Out[i - 1], s[i])
            ELSE IF i > 1 /\ Gap(i - 1) THEN Out[i - 1]
            ELSE Append(Out[i - 1], "_")
    IN  Out[Len(s)]

\* s.strip("_")
StripUnderscores(s) ==
    LET inked == {i \in 1..Len(s) : s[i] # "_"}
    IN  IF inked = {} THEN <<>>
        ELSE SubSeq(s, CHOOSE i \in inked : \A k \in inked : i <= k,
                       CHOOSE i \in inked : \A k \in inked : i >= k)

DefaultColumnName == <<"c", "o", "l", "u", "m", "n">>

\* lines 18-24
CleanName(col) ==
    LET clean == StripUnderscores(Slug(Lower(Strip(col))))
    IN  IF clean = <<>> THEN DefaultColumnName ELSE clean

\* f"{clean}_{n}"
Suffixed(clean, n) == clean \o <<"_">> \o DigitsOf(n)

\* lines 14-33: `seen` counts the repeats of each clean name; a suffixed
\* name is not entered in it
NewColumns(columns) ==
    LET Loop[i \in 0..Len(columns)] ==
            IF i = 0 THEN [seen |-> <<>>, new_columns |-> <<>>]
            ELSE LET prev == Loop[i - 1]
                     clean == CleanName(columns[i])
                     known == {k \in DOMAIN prev.seen : prev.seen[k][1] = clean}
                 IN  IF known # {}
                     THEN LET k == CHOOSE k \in known : TRUE
                              count == prev.seen[k][2] + 1
                          IN  [seen |-> [prev.seen EXCEPT ![k] = <<clean, count>>],
                               new_columns |->
                                   Append(prev.new_columns, Suffixed(clean, count))]
                     ELSE [seen |-> Append(prev.seen, <<clean, 0>>),
                           new_columns |-> Append(prev.new_columns, clean)]
    IN  Loop[Len(columns)].new_columns

\* lines 9-36; nothing in the try block raises
standardize_columns(df) ==
    IF Len(df.columns) = 0 \/ Len(df.rows) = 0 THEN df
    ELSE [df EXCEPT !.columns = NewColumns(df.columns)]

\* column lists whose names collide after cleaning, and names that look
\* like the suffixed form of another
MaxNames == 3

RawNames ==
    { <<"a">>, <<"A">>, <<" ", "a", " ">>, <<"a", "_", "1">>,
      <<"a", " ", "1">>, <<"a", "_", "1", "_", "1">>, <<"b", "-", "-", "c">>,
      <<"@">> }

\* a frame of one row, or of none
NamedFrame(columns, n) ==
    [columns |-> columns,
     dtypes |-> [c \in DOMAIN columns |-> "int64"],
     rows |-> [i \in 1..n |->
                 [idx |-> i - 1, cells |-> [c \in DOMAIN columns |-> PyInt(c)]]]]

NamedFrames ==
    {NamedFrame(columns, n) :
        columns \in UNION {[1..k -> RawNames] : k \in 1..MaxNames},
        n \in {0, 1}}

\* standardize_columns(df), and once more on what it returned
InitStandardize ==
    /\ NoJobs
    /\ FilterIdle
    /\ fn_in \in NamedFrames
    /\ fn_out = None

StandardizeColumns ==
    /\ Len(fn_out) < 2
    /\ fn_out' = Append(fn_out, standardize_columns(
                                    IF fn_out = None THEN fn_in
                                    ELSE fn_out[Len(fn_out)]))
    /\ UNCHANGED <<f_df, f_filters, f_out, f_chain, f_applied, fn_in>>
    /\ UNCHANGED jvars

NextStandardize == StandardizeColumns

SpecStandardize == InitStandardize /\ [][NextStandardize]_vars


\* ------------------------------------------------ app/api/errors.py 14-49
\* download_error_report reads the registry and the errors directory and
\* changes neither: the status code of its response
download_error_report(job_id) ==
    IF job_id \notin DOMAIN jobs THEN 404
    ELSE IF jobs[job_id].errors = <<>> THEN 404
    ELSE IF <<job_id, "errors_report">> \notin files THEN 404
    ELSE 200


\* ------------------------------------ pipeline.py 197-238, 338-348, 366-386
(***************************************************************************)
(* The path of the table through run_async from the filter stage to the    *)
(* summary.  fn_in is <<df, config>> as the filter stage receives them;    *)
(* fn_out holds the locals of the run: the table, the counters of the      *)
(* result, the number of rows handed to the writer.  The stages between    *)
(* noise removal and the writer (validate, profile, vectorize) read df     *)
(* and do not rebind it.                                                   *)
(***************************************************************************)
\* a noise stage that records rows_after before the outliers are removed
NoiseCountedEarly(df, config) ==
    LET deduped == IF ConfigGet(config, "remove_duplicates", TRUE)
                   THEN remove_duplicates(df) ELSE df
        cleaned == IF ConfigGet(config, "remove_outliers", FALSE)
                   THEN remove_outliers(deduped, None) ELSE deduped
    IN  [df |-> cleaned,
         duplicates_removed |-> Len(df.rows) - Len(deduped.rows),
         outliers_removed |-> Len(deduped.rows) - Len(cleaned.rows),
         rows_after |-> Len(deduped.rows)]

\* lines 213-238: the table, the two counters and rows_after
NoiseCounted(df, config) ==
    LET deduped == IF ConfigGet(config, "remove_duplicates", TRUE)
                   THEN remove_duplicates(df) ELSE df
        cleaned == IF ConfigGet(config, "remove_outliers", FALSE)
                   THEN remove_outliers(deduped, None) ELSE deduped
    IN  [df |-> cleaned,
         duplicates_removed |-> Len(df.rows) - Len(deduped.rows),
         outliers_removed |-> Len(deduped.rows) - Len(cleaned.rows),
         rows_after |-> Len(cleaned.rows)]

\* lines 197-206: `if filters: df = apply_filters(df, filters)`
Filtered(df, config) ==
    LET filters == ConfigGet(config, "filters", <<>>)
    IN  IF filters # <<>> THEN apply_filters(df, filters) ELSE df

\* STEP 4 and the capture of rows_before
FilterRows ==
    /\ fn_out = None
    /\ LET df == Filtered(fn_in.df, fn_in.config)
       IN  fn_out' = Some([pc |-> "noise", df |-> df,
                           rows_filtered |-> Len(fn_in.df.rows) - Len(df.rows),
                           rows_before |-> Len(df.rows), rows_after |-> 0,
                           duplicates_removed |-> 0, outliers_removed |-> 0,
                           written |-> None, status |-> "processing"])
    /\ UNCHANGED <<f_df, f_filters, f_out, f_chain, f_applied, fn_in>>
    /\ UNCHANGED jvars

\* STEP 5
RemoveNoise ==
    /\ fn_out # None
    /\ fn_out[1].pc = "noise"
    /\ LET noise == NoiseCounted(fn_out[1].df, fn_in.config)
       IN  fn_out' = Some([fn_out[1] EXCEPT
                             !.pc = "write", !.df = noise.df,
                             !.duplicates_removed = noise.duplicates_removed,
                             !.outliers_removed = noise.outliers_removed,
                             !.rows_after = noise.rows_after])
    /\ UNCHANGED <<f_df, f_filters, f_out, f_chain, f_applied, fn_in>>
    /\ UNCHANGED jvars

\* STEP 9: df.to_csv / df.to_json write one record per row of df
SaveOutput ==
    /\ fn_out # None
    /\ fn_out[1].pc = "write"
    /\ fn_out' = Some([fn_out[1] EXCEPT !.pc = "finish",
                                        !.written = Some(Len(fn_out[1].df.rows))])
    /\ UNCHANGED <<f_df, f_filters, f_out, f_chain, f_applied, fn_in>>
    /\ UNCHANGED jvars

\* STEP 11: the summary takes its counts from the result and the counters
Summarize ==
    /\ fn_out # None
    /\ fn_out[1].pc = "finish"
    /\ fn_out' = Some([fn_out[1] EXCEPT !.pc = "done", !.status = "completed"])
    /\ UNCHANGED <<f_df, f_filters, f_out, f_chain, f_applied, fn_in>>
    /\ UNCHANGED jvars

\* tables of ten distinct rows followed by rows that repeat one of them or
\* lie far outside them
MaxTailRows == 2

TallCells == [i \in 1..10 |-> <<PyInt(i), PyInt(i)>>]
TailCells == {<<PyInt(50), PyInt(5)>>, <<PyInt(1), PyInt(1)>>}

TallFrame(tail) ==
    LET cells == TallCells \o tail
    IN  [columns |-> OutlierColumns,
         dtypes |-> <<"int64", "int64">>,
         rows |-> [i \in 1..Len(cells) |-> [idx |-> i - 1, cells |-> cells[i]]]]

TallFrames ==
    {TallFrame(tail) : tail \in UNION {[1..n -> TailCells] : n \in 0..MaxTailRows}}

\* the filters a request may carry: none, age == 25, x > 1
FilterChoices ==
    { <<>>,
      << << <<"a", "g", "e">>, [op |-> "==", value |-> PyInt(25)] >> >>,
      << << <<"x">>, [op |-> ">", value |-> PyInt(1)] >> >> }

CleaningConfigs ==
    {[filters |-> f] : f \in FilterChoices}
    \cup {[filters |-> f, remove_duplicates |-> d, remove_outliers |-> o] :
            f \in FilterChoices, d \in BOOLEAN, o \in BOOLEAN}

\* one run from the filter stage on, for any table and configuration
InitRows ==
    /\ NoJobs
    /\ FilterIdle
    /\ fn_in \in {[df |-> df, config |-> config] :
                    df \in DedupeFrames \cup TallFrames,
                    config \in CleaningConfigs}
    /\ fn_out = None

NextRows ==
    \/ FilterRows
    \/ RemoveNoise
    \/ SaveOutput
    \/ Summarize

SpecRows == InitRows /\ [][NextRows]_vars


\* ------------------------------------------- app/services/validation.py
(***************************************************************************)
(* The quality score.  A float is the exact rational it stands for, a      *)
(* pair <<numerator, denominator>> in lowest terms with a positive         *)
(* denominator; round(x, 2) is the nearest hundredth, ties to even, as an  *)
(* integer number of hundredths.  A report is None or a record; a list     *)
(* that is only counted is its length.                                     *)
(***************************************************************************)
RECURSIVE GCD(_, _)
GCD(a, b) == IF b = 0 THEN a ELSE GCD(b, a % b)

Abs(a) == IF a < 0 THEN 0 - a ELSE a

Rat(n, d) ==
    LET g == GCD(Abs(n), d)
    IN  IF n = 0 THEN <<0, 1>> ELSE <<n \div g, d \div g>>

RAdd(x, y) == Rat(x[1] * y[2] + y[1] * x[2], x[2] * y[2])
RSub(x, y) == Rat(x[1] * y[2] - y[1] * x[2], x[2] * y[2])
RMul(x, y) == Rat(x[1] * y[1], x[2] * y[2])
RLeq(x, y) == x[1] * y[2] <= y[1] * x[2]
RLess(x, y) == x[1] * y[2] < y[1] * x[2]
RMin(x, y) == IF RLeq(x, y) THEN x ELSE y
RMax(x, y) == IF RLeq(y, x) THEN x ELSE y

\* round(x, 2) in hundredths, for x >= 0
Round2(x) ==
    LET n == 100 * x[1]
        q == n \div x[2]
        r == n % x[2]
    IN  IF 2 * r < x[2] THEN q
        ELSE IF 2 * r > x[2] THEN q + 1
        ELSE IF q % 2 = 0 THEN q ELSE q + 1

\* max(0.0, min(100.0, score)), the last line of each sub-score
Clamp(score) == RMax(Rat(0, 1), RMin(Rat(100, 1), score))

\* df.isnull(): the missing cells of column c
NullRows(df, c) == {i \in DOMAIN df.rows : df.rows[i].cells[c].t = "none"}

RECURSIVE SumOver(_, _)
SumOver(f, S) ==
    IF S = {} THEN 0
    ELSE LET x == CHOOSE x \in S : TRUE IN f[x] + SumOver(f, S \ {x})

\* lines 213-233; missing_data_report is None or its 'columns' percentages
_calculate_completeness_score(df, missing_data_report) ==
    LET total_cells == Len(df.rows) * Len(df.columns)
        missing_count ==
            SumOver([c \in DOMAIN df.columns |-> Cardinality(NullRows(df, c))],
                    DOMAIN df.columns)
        score == Rat(100 * (total_cells - missing_count), total_cells)
        high_missing_cols ==
            IF missing_data_report = None THEN 0
            ELSE Cardinality({k \in DOMAIN missing_data_report[1] :
                                 missing_data_report[1][k] > 50})
        penalized ==
            IF high_missing_cols > 0
            THEN RMax(Rat(0, 1),
                      RSub(score, Rat(Min(20, high_missing_cols * 5), 1)))
            ELSE score
    IN  IF total_cells = 0 THEN Rat(100, 1) ELSE Clamp(penalized)

\* _check_type, lines 7-30, for one cell of a record of df.to_dict: a
\* missing cell is NaN, not None
_check_type(value, expected_type) ==
    CASE expected_type = "string" -> value.t = "str"
      [] expected_type = "number" -> value.t = "none" \/ ToNumeric(value) # None
      [] expected_type = "boolean" -> value.t = "bool"
      [] expected_type = "datetime" ->
            value.t = "none" \/ value.t = "int" \/ ToDatetime(value) # None
      [] OTHER -> TRUE

\* one field of one row in the loop of validate_schema, lines 45-62; value
\* is <<>> when the row has no such key
FieldValid(value, rules) ==
    LET expected_type == IF "type" \in DOMAIN rules THEN rules.type ELSE ""
        required == "required" \in DOMAIN rules /\ rules.required
    IN  /\ ~(required /\ value = None)
        /\ (expected_type # "" /\ value # None) =>
               _check_type(value[1], expected_type)
        /\ (expected_type = "number" /\ value # None /\ value[1].t # "none") =>
               /\ "min" \in DOMAIN rules => ~(ToNumeric(value[1])[1] < rules.min)
               /\ "max" \in DOMAIN rules => ~(ToNumeric(value[1])[1] > rules.max)

\* row.get(field) over the records of df
RowGet(df, i, field) ==
    IF ColumnAt(df, field) = 0 THEN None
    ELSE Some(df.rows[i].cells[ColumnAt(df, field)])

\* validate_schema, lines 33-64; a schema is the sequence of its
\* <<field, rules>> items
validate_schema(df, schema) ==
    \A i \in DOMAIN df.rows, k \in DOMAIN schema :
        FieldValid(RowGet(df, i, schema[k][1]), schema[k][2])

\* a validity score with no cap on a penalty and no clamp
validity_unclamped(df, schema, type_enforcement_report, validation_errors) ==
    RSub(RSub(Rat(100, 1),
              Rat(5 * (IF type_enforcement_report = None THEN 0
                       ELSE type_enforcement_report[1]), 1)),
         Rat(100 * validation_errors, Max(Len(df.rows), 1)))

\* lines 246-270; type_enforcement_report is None or the length of its
\* 'errors', validation_errors the length of the list (0 for None)
_calculate_validity_score(df, schema, type_enforcement_report, validation_errors) ==
    LET errors == IF type_enforcement_report = None THEN 0
                  ELSE type_enforcement_report[1]
        typed == IF errors > 0 THEN Rat(100 - Min(40, errors * 5), 1)
                 ELSE Rat(100, 1)
        error_ratio100 == Rat(100 * validation_errors, Max(Len(df.rows), 1))
        checked == IF validation_errors > 0
                   THEN RSub(typed, RMin(Rat(40, 1), error_ratio100))
                   ELSE typed
        score == IF schema # <<>> /\ validate_schema(df, schema)
                 THEN RMin(Rat(100, 1), RAdd(checked, Rat(10, 1)))
                 ELSE checked
    IN  Clamp(score)

\* str.isupper() and str.islower(): a cased character, and none of the
\* other case
IsUpper(s) ==
    /\ \E i \in DOMAIN s : \E k \in DOMAIN UpperCase : s[i] = UpperCase[k]
    /\ \A i \in DOMAIN s : \A k \in DOMAIN LowerCase : s[i] # LowerCase[k]
IsLower(s) ==
    /\ \E i \in DOMAIN s : \E k \in DOMAIN LowerCase : s[i] = LowerCase[k]
    /\ \A i \in DOMAIN s : \A k \in DOMAIN UpperCase : s[i] # UpperCase[k]

\* lines 292-307: the deductions of a column of dtype object
ObjectDeduction(df, c) ==
    LET str_values == {StrOf(df.rows[i].cells[c]) :
                          i \in DOMAIN df.rows \ NullRows(df, c)}
        has_upper == \E s \in str_values : IsUpper(s)
        has_lower == \E s \in str_values : IsLower(s)
        has_mixed == \E s \in str_values : ~IsUpper(s) /\ ~IsLower(s)
        kinds == (IF has_upper THEN 1 ELSE 0) + (IF has_lower THEN 1 ELSE 0)
                 + (IF has_mixed THEN 1 ELSE 0)
        has_whitespace == \E s \in str_values : s # Strip(s)
    IN  (IF kinds > 1 THEN 15 ELSE 0) + (IF has_whitespace THEN 10 ELSE 0)

\* lines 310-320: the deduction for the coefficient of variation
\* cv = std / |mean| (sample standard deviation) of a numeric column; with
\* S the sum and Q the sum of squares of n values, cv > k is
\* n * (n * Q - S * S) > k * k * (n - 1) * S * S
VariationDeduction(df, c) ==
    LET series == NumericSeries(df, c)
        at == NotNa(series)
        n == Cardinality(at)
        S == SumOver([i \in at |-> series[i][1]], at)
        Q == SumOver([i \in at |-> series[i][1] * series[i][1]], at)
        spread == n * (n * Q - S * S)
    IN  IF n > 1 /\ S # 0
        THEN IF spread > 4 * (n - 1) * S * S THEN 20
             ELSE IF spread > (n - 1) * S * S THEN 10 ELSE 0
        ELSE 0

\* lines 278-328
_calculate_consistency_score(df) ==
    LET scored == {c \in DOMAIN df.columns :
                      NullRows(df, c) # DOMAIN df.rows}
        col_score ==
            [c \in scored |->
                Max(0, 100
                       - (IF df.dtypes[c] = "object"
                          THEN ObjectDeduction(df, c) ELSE 0)
                       - (IF df.dtypes[c] \in {"int64", "float64", "bool"}
                          THEN VariationDeduction(df, c) ELSE 0))]
    IN  IF Len(df.rows) = 0 \/ scored = {} THEN Rat(100, 1)
        ELSE Clamp(Rat(SumOver(col_score, scored), Cardinality(scored)))

\* lines 353-368: the numeric columns with at least four values and a
\* positive IQR, and the number of values of such a column outside
\* [Q1 - 1.5 * IQR, Q3 + 1.5 * IQR]
Spread(df) ==
    {c \in DOMAIN df.columns :
        /\ df.dtypes[c] \in {"int64", "float64"}
        /\ Cardinality(NotNa(NumericSeries(df, c))) >= 4
        /\ Quantile4(NumericSeries(df, c), 3)
              - Quantile4(NumericSeries(df, c), 1) > 0}

Outliers(df, c) ==
    LET series == NumericSeries(df, c)
        bounds == IqrBounds8(Quantile4(series, 1), Quantile4(series, 3))
    IN  Cardinality({i \in NotNa(series) :
                        \/ 8 * series[i][1] < bounds[1]
                        \/ 8 * series[i][1] > bounds[2]})

RECURSIVE RSumOver(_, _)
RSumOver(f, S) ==
    IF S = {} THEN Rat(0, 1)
    ELSE LET x == CHOOSE x \in S : TRUE IN RAdd(f[x], RSumOver(f, S \ {x}))

\* lines 336-375
_calculate_accuracy_score(df) ==
    LET n == Len(df.rows)
        keys == [i \in 1..n |-> df.rows[i].cells]
        duplicate_count == Cardinality({i \in 1..n : Duplicated(keys, i)})
        deduped == IF duplicate_count > 0
                   THEN RSub(Rat(100, 1),
                             RMin(Rat(30, 1), Rat(100 * duplicate_count, n)))
                   ELSE Rat(100, 1)
        counted == Spread(df)
        outlier_ratio_total ==
            RSumOver([c \in counted |->
                        Rat(Outliers(df, c),
                            Cardinality(NotNa(NumericSeries(df, c))))], counted)
        avg100 == RMul(outlier_ratio_total, Rat(100, Cardinality(counted)))
        score == IF counted # {}
                 THEN RSub(deduped, RMin(Rat(30, 1), avg100)) ELSE deduped
    IN  IF n = 0 THEN Rat(100, 1) ELSE Clamp(score)

\* lines 378-391
_assign_quality_grade(score) ==
    IF RLeq(Rat(90, 1), score) THEN "A"
    ELSE IF RLeq(Rat(80, 1), score) THEN "B"
    ELSE IF RLeq(Rat(70, 1), score) THEN "C"
    ELSE IF RLeq(Rat(60, 1), score) THEN "D"
    ELSE "F"

\* lines 136-202, without the "factors" that repeat the four scores
calculate_data_quality_score(df, schema, missing_data_report, type_enforcement_report, validation_errors) ==
    LET completeness_score ==
            _calculate_completeness_score(df, missing_data_report)
        validity_score ==
            _calculate_validity_score(df, schema, type_enforcement_report,
                                      validation_errors)
        consistency_score == _calculate_consistency_score(df)
        accuracy_score == _calculate_accuracy_score(df)
        overall_score ==
            RAdd(RAdd(RMul(completeness_score, Rat(30, 100)),
                      RMul(validity_score, Rat(30, 100))),
                 RAdd(RMul(consistency_score, Rat(20, 100)),
                      RMul(accuracy_score, Rat(20, 100))))
    IN  IF Len(df.rows) = 0 \/ Len(df.columns) = 0
        THEN [overall_score |-> 0, completeness_score |-> 0,
              validity_score |-> 0, consistency_score |-> 0,
              accuracy_score |-> 0, grade |-> "F"]
        ELSE [overall_score |-> Round2(overall_score),
              completeness_score |-> Round2(completeness_score),
              validity_score |-> Round2(validity_score),
              consistency_score |-> Round2(consistency_score),
              accuracy_score |-> Round2(accuracy_score),
              grade |-> _assign_quality_grade(overall_score)]

\* tables of names and ages of up to MaxScoreRows rows
MaxScoreRows == 2

SmallFrames ==
    {DedupeFrame(cells) :
        cells \in UNION {[1..n -> DedupeCells] : n \in 0..MaxScoreRows}}

\* tables of three numeric columns: the first complete, the others with so
\* many missing cells at the top and so many far values at the bottom
MaxWideRows == 13

WideColumns == << <<"a">>, <<"b">>, <<"c">> >>

WideCell(i, n, missing, far) ==
    IF i <= missing THEN PyNone
    ELSE IF i > n - far THEN PyInt(200)
    ELSE PyInt(100 + i)

WideFrame(n, shape) ==
    [columns |-> WideColumns,
     dtypes |-> <<"int64", "float64", "float64">>,
     rows |-> [i \in 1..n |->
                 [idx |-> i - 1,
                  cells |-> <<PyInt(100 + i),
                              WideCell(i, n, shape[1], shape[2]),
                              WideCell(i, n, shape[3], shape[4])>>]]]

WideFrames ==
    {WideFrame(MaxWideRows, shape) : shape \in [1..4 -> {0, 2}]}

\* schema: none, a numeric rule, a required string, a rule for a column of
\* the wide tables
Schemas ==
    { <<>>,
      << << <<"a", "g", "e">>, [type |-> "number", min |-> 26] >> >>,
      << << <<"n", "a", "m", "e">>, [type |-> "string", required |-> TRUE] >> >>,
      << << <<"a">>, [type |-> "number", max |-> 150] >>,
         << <<"z">>, [type |-> "datetime"] >> >> }

\* missing_data_report: none, or the missing_percentage of its columns
MissingReports ==
    {None, Some(<<10, 60>>), Some(<<60, 70, 80, 90, 100>>)}

\* type_enforcement_report: none, or the number of its errors
TypeReports == {None, Some(0), Some(3), Some(9)}

\* the length of validation_errors, 0 for None and for []
ErrorCounts == {0, 2, 40}

\* one call of calculate_data_quality_score
InitScore ==
    /\ NoJobs
    /\ FilterIdle
    /\ fn_in \in {[df |-> df, schema |-> schema, missing_data_report |-> mr,
                    type_enforcement_report |-> tr, validation_errors |-> ve] :
                    df \in SmallFrames \cup WideFrames, schema \in Schemas,
                    mr \in MissingReports, tr \in TypeReports,
                    ve \in ErrorCounts}
    /\ fn_out = None

CalculateQualityScore ==
    /\ fn_out = None
    /\ fn_out' = Some(calculate_data_quality_score(
                         fn_in.df, fn_in.schema, fn_in.missing_data_report,
                         fn_in.type_enforcement_report, fn_in.validation_errors))
    /\ UNCHANGED <<f_df, f_filters, f_out, f_chain, f_applied, fn_in>>
    /\ UNCHANGED jvars

NextScore == CalculateQualityScore

SpecScore == InitScore /\ [][NextScore]_vars


\* ------------------------------- app/services/type_enforcement.py (ranges)
\* rules.get(key): None when the rule has no such key
RuleGet(rules, key) == IF key \in DOMAIN rules THEN Some(rules[key]) ELSE None

\* rules.get('action', 'flag')
ActionOf(rules) == IF "action" \in DOMAIN rules THEN rules.action ELSE "flag"

\* the index labels at which a comparison of numeric_col with a bound is
\* True; NaN compares False
BelowMin(df, numeric_col, min_val) ==
    {df.rows[i].idx : i \in {j \in DOMAIN numeric_col :
        numeric_col[j] # None /\ numeric_col[j][1] < min_val}}

AboveMax(df, numeric_col, max_val) ==
    {df.rows[i].idx : i \in {j \in DOMAIN numeric_col :
        numeric_col[j] # None /\ numeric_col[j][1] > max_val}}

\* df[~mask]: the mask is aligned to the rows by index label
DropMasked(df, mask) ==
    [df EXCEPT !.rows = Pick(df.rows, {i \in DOMAIN df.rows : df.rows[i].idx \notin mask})]

\* df.loc[mask, col] = bound
ClipMasked(df, mask, c, bound) ==
    [df EXCEPT !.rows = [i \in DOMAIN df.rows |->
        IF df.rows[i].idx \in mask
        THEN [df.rows[i] EXCEPT !.cells[c] = PyInt(bound)]
        ELSE df.rows[i]]]

\* one bound of one column: the violation entry and the action
ApplyBound(state, col, c, rule, bound, mask, action) ==
    IF bound = None \/ mask = {} THEN state
    ELSE [df |-> CASE action = "drop" -> DropMasked(state.df, mask)
                   [] action = "clip" -> ClipMasked(state.df, mask, c, bound[1])
                   [] OTHER -> state.df,
          violations |-> Append(state.violations,
              [column |-> col, rule |-> rule, expected |-> bound[1],
               violations_count |-> Cardinality(mask)])]

\* one pass of the loop over range_rules.items(): numeric_col and both masks
\* come from the table as it is when the column's turn begins
RangeColumn(state, col, rules) ==
    LET df == state.df
        c == ColumnAt(df, col)
        min_val == RuleGet(rules, "min")
        max_val == RuleGet(rules, "max")
        action == ActionOf(rules)
        numeric_col == NumericSeries(df, c)
        below_min == IF min_val = None THEN {} ELSE BelowMin(df, numeric_col, min_val[1])
        above_max == IF max_val = None THEN {} ELSE AboveMax(df, numeric_col, max_val[1])
    IN  IF c = 0 THEN state
        ELSE ApplyBound(ApplyBound(state, col, c, "min", min_val, below_min, action),
                        col, c, "max", max_val, above_max, action)

\* range_rules is the sequence of the dict's items, in insertion order
validate_ranges(df, range_rules) ==
    LET Through[k \in 0..Len(range_rules)] ==
            IF k = 0 THEN [df |-> df, violations |-> <<>>]
            ELSE RangeColumn(Through[k - 1], range_rules[k][1], range_rules[k][2])
    IN  IF Len(df.rows) = 0 \/ Len(range_rules) = 0
        THEN [df |-> df, violations |-> <<>>]
        ELSE Through[Len(range_rules)]

MaxRangeRows == 2

AgeColumn == <<"a", "g", "e">>
ScoreColumn == <<"s", "c", "o", "r", "e">>
ZipColumn == <<"z", "i", "p">>

RangeFrame(cells) ==
    [columns |-> <<AgeColumn, ScoreColumn>>,
     dtypes |-> <<"object", "int64">>,
     rows |-> [i \in 1..Len(cells) |-> [idx |-> i - 1, cells |-> cells[i]]]]

RangeCells ==
    {<<a, s>> : a \in {PyInt(-5), PyInt(25), PyInt(150), PyNone},
                s \in {PyInt(-5), PyInt(50)}}

\* test_validate_ranges_clip: age = [25, 150, 35, -5, 45]
AgeFrame ==
    RangeFrame(<< <<PyInt(25), PyInt(50)>>, <<PyInt(150), PyInt(50)>>,
                  <<PyInt(35), PyInt(50)>>, <<PyInt(-5), PyInt(50)>>,
                  <<PyInt(45), PyInt(50)>> >>)

RangeFrames ==
    {RangeFrame(cells) : cells \in UNION {[1..n -> RangeCells] : n \in 0..MaxRangeRows}}
        \cup {AgeFrame}

\* {min, max, action} dicts with any of the three keys left out
RuleDict(keys, action) ==
    [k \in keys |-> CASE k = "min" -> 0 [] k = "max" -> 120 [] OTHER -> action]

RuleDicts ==
    {RuleDict(keys, action) : keys \in SUBSET {"min", "max", "action"},
                              action \in {"flag", "drop", "clip"}}

\* no rule, a rule for one column or for a column that does not exist, and
\* rules for two columns in either order
RangeRules ==
    {<<>>}
    \cup {<< <<col, rules>> >> : col \in {AgeColumn, ScoreColumn, ZipColumn},
                                 rules \in RuleDicts}
    \cup {<< <<AgeColumn, r1>>, <<ScoreColumn, r2>> >> : r1 \in RuleDicts, r2 \in RuleDicts}
    \cup {<< <<ScoreColumn, r2>>, <<AgeColumn, r1>> >> : r1 \in RuleDicts, r2 \in RuleDicts}

InitRanges ==
    /\ NoJobs
    /\ FilterIdle
    /\ fn_in \in {[df |-> df, range_rules |-> range_rules] :
                    df \in RangeFrames, range_rules \in RangeRules}
    /\ fn_out = None

ValidateRanges ==
    /\ fn_out = None
    /\ fn_out' = Some(validate_ranges(fn_in.df, fn_in.range_rules))
    /\ UNCHANGED <<f_df, f_filters, f_out, f_chain, f_applied, fn_in>>
    /\ UNCHANGED jvars

NextRanges == ValidateRanges

SpecRanges == InitRanges /\ [][NextRanges]_vars


\* -------------------------------------------- app/services/missing_data.py
AsciiOrder == Digits \o UpperCase \o LowerCase
CharRank(ch) == CHOOSE k \in DOMAIN AsciiOrder : AsciiOrder[k] = ch

\* s < t for strings of digits and letters
RECURSIVE StrLess(_, _)
StrLess(s, t) ==
    IF Len(t) = 0 THEN FALSE
    ELSE IF Len(s) = 0 THEN TRUE
    ELSE IF s[1] # t[1] THEN CharRank(s[1]) < CharRank(t[1])
    ELSE StrLess(Tail(s), Tail(t))

\* lines 32-58: the recommended strategy of each column with missing cells
Recommendations(df) ==
    [col \in {df.columns[c] : c \in {d \in DOMAIN df.columns : NullRows(df, d) # {}}} |->
        LET c == ColumnAt(df, col)
            missing_pct == Round2(Rat(Cardinality(NullRows(df, c)) * 100, Len(df.rows)))
        IN  IF missing_pct > 5000 THEN "drop_columns"
            ELSE IF df.dtypes[c] \in {"int64", "float64"} THEN "fill_median"
            ELSE "fill_mode"]

\* df[col].fillna(value); fillna(NaN) changes nothing
FillNa(df, c, value) ==
    [df EXCEPT !.rows = [i \in DOMAIN df.rows |->
        IF df.rows[i].cells[c].t = "none"
        THEN [df.rows[i] EXCEPT !.cells[c] = value] ELSE df.rows[i]]]

\* df[col].mode(): the most frequent values in ascending order; the result is
\* its first element, None when the column has no value
Mode(df, c) ==
    LET at == DOMAIN df.rows \ NullRows(df, c)
        Count(v) == Cardinality({i \in at : df.rows[i].cells[c] = v})
        most == {v \in {df.rows[i].cells[c] : i \in at} :
                    \A i \in at : Count(df.rows[i].cells[c]) <= Count(v)}
        Before(v, w) == IF v.t = "int" THEN v.n < w.n ELSE StrLess(v.s, w.s)
    IN  IF at = {} THEN None
        ELSE Some(CHOOSE v \in most : \A w \in most \ {v} : Before(v, w))

\* ffill(): each missing cell takes the last value above it
Ffill(df, c) ==
    LET Filled[i \in 0..Len(df.rows)] ==
            IF i = 0 THEN PyNone
            ELSE IF df.rows[i].cells[c].t = "none" THEN Filled[i - 1]
            ELSE df.rows[i].cells[c]
    IN  [df EXCEPT !.rows = [i \in DOMAIN df.rows |->
            [df.rows[i] EXCEPT !.cells[c] = Filled[i]]]]

\* bfill(): each missing cell takes the next value below it
Bfill(df, c) ==
    LET n == Len(df.rows)
        Filled[k \in 0..n] ==
            IF k = 0 THEN PyNone
            ELSE IF df.rows[n + 1 - k].cells[c].t = "none" THEN Filled[k - 1]
            ELSE df.rows[n + 1 - k].cells[c]
    IN  [df EXCEPT !.rows = [i \in DOMAIN df.rows |->
            [df.rows[i] EXCEPT !.cells[c] = Filled[n + 1 - i]]]]

FlagSuffix == <<"_", "m", "i", "s", "s", "i", "n", "g">>

\* df[flag_col_name] = df[col].isnull(): a new last column, or the column of
\* that name overwritten
WithFlag(df, c) ==
    LET name == df.columns[c] \o FlagSuffix
        at == ColumnAt(df, name)
        Flag(i) == PyBool(df.rows[i].cells[c].t = "none")
    IN  IF at = 0
        THEN [columns |-> Append(df.columns, name),
              dtypes |-> Append(df.dtypes, "bool"),
              rows |-> [i \in DOMAIN df.rows |->
                  [df.rows[i] EXCEPT !.cells = Append(@, Flag(i))]]]
        ELSE [df EXCEPT !.dtypes[at] = "bool",
                        !.rows = [i \in DOMAIN df.rows |->
                            [df.rows[i] EXCEPT !.cells[at] = Flag(i)]]]

\* lines 113-170, the body of the try statement for one column: whether it
\* raises, the table, the action text (without the value in parentheses),
\* the rows dropped and whether the column is marked for removal.  A filled
\* mean or median is a float cell holding an exact fraction; fillna(None)
\* raises ValueError
ApplyStrategy(df, c, col_strategy, fill_value) ==
    LET numeric == df.dtypes[c] \in {"int64", "float64"}
        kept == DOMAIN df.rows \ NullRows(df, c)
        sorted == SortedValues(NumericSeries(df, c))
        k == Len(sorted)
        mean == IF kept = {} THEN PyNone
                ELSE [t |-> "float",
                      q |-> Rat(SumOver([i \in kept |-> df.rows[i].cells[c].n], kept),
                                Cardinality(kept))]
        median == IF k = 0 THEN PyNone
                  ELSE IF k % 2 = 1 THEN [t |-> "float", q |-> Rat(sorted[(k + 1) \div 2], 1)]
                  ELSE [t |-> "float",
                        q |-> Rat(sorted[k \div 2] + sorted[k \div 2 + 1], 2)]
        Handled(out, action, rows_dropped, drop) ==
            [raised |-> FALSE, df |-> out, action |-> Some(action),
             rows_dropped |-> rows_dropped, drop |-> drop]
        Raised == [raised |-> TRUE, df |-> df, action |-> None,
                   rows_dropped |-> 0, drop |-> FALSE]
        ModeFilled(action) ==
            IF Mode(df, c) = None THEN Raised
            ELSE Handled(FillNa(df, c, Mode(df, c)[1]), action, 0, FALSE)
    IN  CASE col_strategy = "fill_mean" ->
                IF numeric THEN Handled(FillNa(df, c, mean), "Filled with mean", 0, FALSE)
                ELSE ModeFilled("Filled with mode (mean not applicable for non-numeric)")
          [] col_strategy = "fill_median" ->
                IF numeric THEN Handled(FillNa(df, c, median), "Filled with median", 0, FALSE)
                ELSE ModeFilled("Filled with mode (median not applicable)")
          [] col_strategy = "fill_mode" -> ModeFilled("Filled with mode")
          [] col_strategy = "fill_forward" ->
                Handled(Bfill(Ffill(df, c), c),
                        "Forward filled (with backward fill for leading NaNs)", 0, FALSE)
          [] col_strategy = "fill_backward" ->
                Handled(Ffill(Bfill(df, c), c),
                        "Backward filled (with forward fill for trailing NaNs)", 0, FALSE)
          [] col_strategy = "fill_value" ->
                IF fill_value = None THEN Raised
                ELSE Handled(FillNa(df, c, fill_value[1]), "Filled with custom value", 0, FALSE)
          [] col_strategy = "drop_columns" -> Handled(df, "Marked for column drop", 0, TRUE)
          [] col_strategy = "drop_rows" ->
                Handled([df EXCEPT !.rows = Pick(df.rows, kept)],
                        "Dropped rows with missing values",
                        Len(df.rows) - Cardinality(kept), FALSE)
          [] col_strategy = "flag" -> Handled(WithFlag(df, c), "Created flag column", 0, FALSE)
          [] OTHER -> [raised |-> FALSE, df |-> df, action |-> None,
                       rows_dropped |-> 0, drop |-> FALSE]

\* the same pass of the loop without the except clause: the exception leaves
\* the function
MissingColumnUncaught(state, c, strategy, default_strategy, fill_value) ==
    LET col == state.df.columns[c]
        col_strategy == IF col \in DOMAIN strategy THEN strategy[col] ELSE default_strategy
        done == ApplyStrategy(state.df, c, col_strategy, fill_value)
    IN  IF state.raised \/ NullRows(state.df, c) = {} THEN state
        ELSE IF done.raised THEN [state EXCEPT !.raised = TRUE]
        ELSE [raised |-> FALSE,
              df |-> done.df,
              columns_to_drop |-> IF done.drop THEN Append(state.columns_to_drop, col)
                                  ELSE state.columns_to_drop,
              report |-> [state.report EXCEPT
                  !.actions = IF done.action = None THEN @
                              ELSE Append(@, <<col, done.action[1]>>),
                  !.rows_dropped = @ + done.rows_dropped,
                  !.columns_processed = @ + 1]]

\* lines 107-178, one pass of the loop over df.columns: a column without a
\* missing cell is skipped; an exception of the try body is recorded as the
\* column's action and the column is not counted as processed
MissingColumn(state, c, strategy, default_strategy, fill_value) ==
    LET col == state.df.columns[c]
        col_strategy == IF col \in DOMAIN strategy THEN strategy[col] ELSE default_strategy
        done == ApplyStrategy(state.df, c, col_strategy, fill_value)
    IN  IF NullRows(state.df, c) = {} THEN state
        ELSE IF done.raised
        THEN [state EXCEPT !.report.actions = Append(@, <<col, "Error">>)]
        ELSE [raised |-> FALSE,
              df |-> done.df,
              columns_to_drop |-> IF done.drop THEN Append(state.columns_to_drop, col)
                                  ELSE state.columns_to_drop,
              report |-> [state.report EXCEPT
                  !.actions = IF done.action = None THEN @
                              ELSE Append(@, <<col, done.action[1]>>),
                  !.rows_dropped = @ + done.rows_dropped,
                  !.columns_processed = @ + 1]]

\* df.drop(columns=columns_to_drop)
DropColumns(df, columns_to_drop) ==
    LET keep == {c \in DOMAIN df.columns :
                    \A k \in DOMAIN columns_to_drop : columns_to_drop[k] # df.columns[c]}
    IN  [columns |-> Pick(df.columns, keep),
         dtypes |-> Pick(df.dtypes, keep),
         rows |-> [i \in DOMAIN df.rows |->
             [df.rows[i] EXCEPT !.cells = Pick(@, keep)]]]

\* strategy is None or Some(dict); the report's actions are the items of the
\* dict in insertion order; `raised` tells an exception that left the call
handle_missing_data(df, strategy, default_strategy, fill_value) ==
    LET plan == IF strategy = None THEN Recommendations(df) ELSE strategy[1]
        start == [raised |-> FALSE, df |-> df, columns_to_drop |-> <<>>,
                  report |-> [columns_processed |-> 0, rows_dropped |-> 0,
                              columns_dropped |-> 0, actions |-> <<>>]]
        Through[c \in 0..Len(df.columns)] ==
            IF c = 0 THEN start
            ELSE MissingColumn(Through[c - 1], c, plan, default_strategy, fill_value)
        end == Through[Len(df.columns)]
        out == DropColumns(end.df, end.columns_to_drop)
    IN  IF Len(df.rows) = 0 THEN [raised |-> FALSE, df |-> df, report |-> start.report]
        ELSE [raised |-> end.raised,
              df |-> out,
              report |-> [columns_processed |-> end.report.columns_processed,
                          rows_dropped |-> end.report.rows_dropped,
                          columns_dropped |-> Len(end.columns_to_drop),
                          actions |-> end.report.actions,
                          final_rows |-> Len(out.rows),
                          final_columns |-> Len(out.columns)]]

\* ---------------------------------- app/services/type_enforcement.py (types)
\* str(x) of a cell of a column: a float column writes 25 as '25.0' and a
\* missing cell as 'nan'
CellStr(dtype, x) ==
    IF dtype = "float64"
    THEN (IF x.t = "none" THEN <<"n", "a", "n">> ELSE StrOf(x) \o <<".", "0">>)
    ELSE StrOf(x)

BoolWords ==
    {<<"t", "r", "u", "e">>, <<"t">>, <<"y", "e", "s">>, <<"y">>, <<"1">>,
     <<"f", "a", "l", "s", "e">>, <<"f">>, <<"n", "o">>, <<"n">>, <<"0">>}

TrueWords == {<<"t", "r", "u", "e">>, <<"t">>, <<"y", "e", "s">>, <<"y">>, <<"1">>}

\* lines 34-97, as the items of the returned dict in column order; no cell
\* of the model parses as a date, so the datetime test never succeeds
detect_column_types(df) ==
    [c \in DOMAIN df.columns |->
        LET at == DOMAIN df.rows \ NullRows(df, c)
            total_count == Cardinality(at)
            Text(i) == Lower(Strip(CellStr(df.dtypes[c], df.rows[i].cells[c])))
            bool_matches == Cardinality({i \in at : Text(i) \in BoolWords})
            valid_numeric == Cardinality({i \in at : ToNumeric(df.rows[i].cells[c]) # None})
        IN  <<df.columns[c],
              IF total_count = 0 THEN "string"
              ELSE IF 10 * bool_matches >= 8 * total_count THEN "bool"
              ELSE IF 10 * valid_numeric >= 8 * total_count THEN "int"
              ELSE "string">>]

\* detected_types.update(type_map): a key already present keeps its place
DictUpdate(items, more) ==
    LET Has(seq, key) == \E k \in DOMAIN seq : seq[k][1] = key
        Put(seq, item) ==
            IF Has(seq, item[1])
            THEN [k \in DOMAIN seq |-> IF seq[k][1] = item[1] THEN item ELSE seq[k]]
            ELSE Append(seq, item)
        Through[k \in 0..Len(more)] ==
            IF k = 0 THEN items ELSE Put(Through[k - 1], more[k])
    IN  Through[Len(more)]

\* lines 142-168, the conversion of one column: the new cells and dtype
Convert(df, c, target_type) ==
    LET dtype == df.dtypes[c]
        Cell(i) == df.rows[i].cells[c]
        Text(i) == Lower(Strip(CellStr(dtype, Cell(i))))
        Number(i) == IF ToNumeric(Cell(i)) = None THEN PyNone
                     ELSE PyInt(ToNumeric(Cell(i))[1])
        New(i) ==
            CASE target_type = "bool" ->
                    IF Text(i) \in BoolWords THEN PyBool(Text(i) \in TrueWords) ELSE PyNone
              [] target_type \in {"int", "float"} -> Number(i)
              [] target_type = "string" ->
                    IF CellStr(dtype, Cell(i)) = <<"n", "a", "n">> THEN PyNone
                    ELSE PyStr(CellStr(dtype, Cell(i)))
              [] OTHER -> Cell(i)
        whole == \A i \in DOMAIN df.rows : New(i).t # "none"
        final ==
            CASE target_type = "bool" -> IF whole THEN "bool" ELSE "object"
              [] target_type = "int" -> "Int64"
              [] target_type = "float" -> IF whole THEN "int64" ELSE "float64"
              [] target_type = "string" -> "object"
              [] OTHER -> dtype
    IN  [df EXCEPT !.dtypes[c] = final,
                   !.rows = [i \in DOMAIN df.rows |->
                       [df.rows[i] EXCEPT !.cells[c] = New(i)]]]

NotFoundHead == <<"C", "o", "l", "u", "m", "n", " ", "'">>
NotFoundTail == <<"'", " ", "n", "o", "t", " ", "f", "o", "u", "n", "d", " ", "i", "n", " ", "D", "a", "t", "a", "F", "r", "a", "m", "e">>

\* lines 136-181, one pass of the loop over type_map.items(): a column that
\* is not in the table is recorded in errors and the loop goes on; no
\* conversion of the model's cells raises
EnforceColumn(state, col, target_type) ==
    LET c == ColumnAt(state.df, col)
    IN  IF c = 0
        THEN [state EXCEPT !.report.errors =
                 Append(@, NotFoundHead \o col \o NotFoundTail)]
        ELSE [state EXCEPT
                !.df = Convert(state.df, c, target_type),
                !.report.conversions = Append(@, <<col,
                    [original |-> state.df.dtypes[c], target |-> target_type,
                     final |-> Convert(state.df, c, target_type).dtypes[c]]>>),
                !.report.columns_enforced = @ + 1]

\* type_map is None or Some(items of the dict); conversions are the items of
\* the report's dict
enforce_types(df, type_map, auto_detect) ==
    LET given == IF type_map = None THEN <<>> ELSE type_map[1]
        merged == IF auto_detect THEN DictUpdate(detect_column_types(df), given)
                  ELSE given
        start == [df |-> df,
                  report |-> [columns_enforced |-> 0, conversions |-> <<>>,
                              errors |-> <<>>]]
        Through[k \in 0..Len(merged)] ==
            IF k = 0 THEN start
            ELSE EnforceColumn(Through[k - 1], merged[k][1], merged[k][2])
    IN  IF Len(df.rows) = 0 THEN start ELSE Through[Len(merged)]

MaxColumnRows == 2

NameColumn == <<"n", "a", "m", "e">>
CityColumn == <<"c", "i", "t", "y">>
Yes == <<"y", "e", "s">>

ColumnCells ==
    {<<a, n, c>> : a \in {PyInt(1), PyInt(25), PyNone},
                   n \in {PyStr(Abc), PyStr(Yes), PyNone},
                   c \in {PyStr(Abc), PyNone}}

\* a numeric column with a missing cell is float64
ColumnFrame(cells) ==
    [columns |-> <<AgeColumn, NameColumn, CityColumn>>,
     dtypes |-> <<IF \E i \in DOMAIN cells : cells[i][1].t = "none"
                  THEN "float64" ELSE "int64", "object", "object">>,
     rows |-> [i \in 1..Len(cells) |-> [idx |-> i - 1, cells |-> cells[i]]]]

ColumnFrames ==
    {ColumnFrame(cells) : cells \in UNION {[1..n -> ColumnCells] : n \in 0..MaxColumnRows}}

\* strategy dicts: for each column one of its strategies or no entry ("")
StrategyDict(a, n, c) ==
    LET choice == [col \in {AgeColumn, NameColumn, CityColumn} |->
                      IF col = AgeColumn THEN a ELSE IF col = NameColumn THEN n ELSE c]
    IN  [col \in {k \in DOMAIN choice : choice[k] # ""} |-> choice[col]]

Strategies ==
    {None} \cup {Some(StrategyDict(a, n, c)) :
                    a \in {"", "fill_median", "fill_value", "drop_rows"},
                    n \in {"", "fill_mode", "fill_forward", "drop_columns"},
                    c \in {"", "fill_backward", "fill_value", "flag"}}

MissingArguments ==
    {[strategy |-> strategy, default_strategy |-> rest[1], fill_value |-> rest[2]] :
        strategy \in Strategies,
        rest \in {<<"fill_mean", None>>, <<"fill_mode", Some(PyInt(0))>>}}

TypeItems ==
    {<<col, target_type>> : col \in {AgeColumn, NameColumn, ZipColumn},
                            target_type \in {"int", "string", "bool"}}

TypeMaps ==
    {None} \cup {Some(<<item>>) : item \in TypeItems}
    \cup {Some(<<pair[1], pair[2]>>) :
            pair \in {p \in TypeItems \X TypeItems : p[1][1] # p[2][1]}}

TypeArguments ==
    {[type_map |-> type_map, auto_detect |-> auto_detect] :
        type_map \in TypeMaps, auto_detect \in BOOLEAN}

\* settings as the pipeline passes them: a configured fill_value strategy
\* (the pipeline gives no fill value), and a type map that names a column
\* the table does not have, merged with the detected types
PipelineMissing ==
    [strategy |-> Some(StrategyDict("", "fill_value", "")),
     default_strategy |-> "fill_mean", fill_value |-> None]
PipelineTypes == [type_map |-> Some(<< <<ZipColumn, "int">> >>), auto_detect |-> TRUE]

\* one table and the arguments of both calls, one of them as above
InitColumns ==
    /\ NoJobs
    /\ FilterIdle
    /\ \E df \in ColumnFrames :
          \/ \E mi \in MissingArguments :
                fn_in = [df |-> df, missing |-> mi, types |-> PipelineTypes]
          \/ \E ty \in TypeArguments :
                fn_in = [df |-> df, missing |-> PipelineMissing, types |-> ty]
    /\ fn_out = [missing |-> None, types |-> None]

HandleMissingData ==
    /\ fn_out.missing = None
    /\ fn_out' = [fn_out EXCEPT !.missing =
           Some(handle_missing_data(fn_in.df, fn_in.missing.strategy,
                    fn_in.missing.default_strategy, fn_in.missing.fill_value))]
    /\ UNCHANGED <<f_df, f_filters, f_out, f_chain, f_applied, fn_in>>
    /\ UNCHANGED jvars

EnforceTypesCall ==
    /\ fn_out.types = None
    /\ fn_out' = [fn_out EXCEPT !.types =
           Some(enforce_types(fn_in.df, fn_in.types.type_map, fn_in.types.auto_detect))]
    /\ UNCHANGED <<f_df, f_filters, f_out, f_chain, f_applied, fn_in>>
    /\ UNCHANGED jvars

NextColumns == HandleMissingData \/ EnforceTypesCall

SpecColumns == InitColumns /\ [][NextColumns]_vars


\* ================================================================ claims
Terminal == {"completed", "failed", "cancelled"}

\* the runs started for a job, and whether all of them have ended
RunsOf(job_id) == {t \in TaskIds : tasks[t].job_id = job_id}
AllRunsEnded(job_id) == \A t \in RunsOf(job_id) : tasks[t].pc = "done"

IsPrefix(s, t) == Len(s) <= Len(t) /\ SubSeq(t, 1, Len(s)) = s

\* C1: when a stage of a pipeline run raised, the job's final status (all of
\* its runs ended, the job still registered) is failed, never completed.
C1_RaisedRunEndsFailed ==
    \A t \in TaskIds :
        LET j == tasks[t].job_id IN
        (tasks[t].pc = "done" /\ tasks[t].raised
            /\ j \in DOMAIN jobs /\ AllRunsEnded(j))
        => jobs[j].status = "failed"

\* C2: the step that ends a run in which a stage raised leaves the job's own
\* error list (Job.errors) non-empty, and every step only appends to that
\* list: the old list is a prefix of the new one.
C2_Step ==
    /\ \A j \in DOMAIN jobs \cap DOMAIN jobs' :
          IsPrefix(jobs[j].errors, jobs'[j].errors)
    /\ \A t \in TaskIds :
          (tasks[t].pc # "done" /\ tasks'[t].pc = "done" /\ tasks'[t].raised
              /\ tasks[t].job_id \in DOMAIN jobs')
          => jobs'[tasks[t].job_id].errors # <<>>

C2_RaisedRunRecordsJobError == [][C2_Step]_vars

\* C3: status transitions are one-directional: a job whose status is
\* completed, failed or cancelled keeps that status in every later step, and
\* no step takes a job from processing back to pending.
C3_Step ==
    \A j \in DOMAIN jobs \cap DOMAIN jobs' :
        /\ jobs[j].status \in Terminal => jobs'[j].status = jobs[j].status
        /\ jobs[j].status = "processing" => jobs'[j].status # "pending"

C3_StatusOneDirectional == [][C3_Step]_vars

\* C4: the transition to completed or failed happens exactly once per job: the
\* completion timestamp is null until that transition, and once the job is
\* completed or failed no later step writes its status or its timestamp.
C4_Step ==
    \A j \in DOMAIN jobs \cap DOMAIN jobs' :
        /\ jobs[j].status \notin {"completed", "failed"}
              => jobs[j].completed_at = None
        /\ jobs[j].status \in {"completed", "failed"}
              => /\ jobs[j].completed_at # None
                 /\ jobs'[j].status = jobs[j].status
                 /\ jobs'[j].completed_at = jobs[j].completed_at

C4_CompletionExactlyOnce == [][C4_Step]_vars

\* C5: a job's progress stays within [0.0, 1.0] and no step stores a value
\* below the one stored before it.
C5_Step ==
    \A j \in DOMAIN jobs \cap DOMAIN jobs' :
        /\ jobs'[j].progress >= 0 /\ jobs'[j].progress <= 100
        /\ jobs'[j].progress >= jobs[j].progress

C5_ProgressMonotonic == [][C5_Step]_vars

\* C6: a run whose result status is completed made its last progress callback
\* with 1.0, and a completed job holding such a result has progress 1.0.
C6_SuccessEndsAtFullProgress ==
    /\ \A t \in TaskIds :
          (tasks[t].pc \in {"set_result", "mark_completed"}
              /\ tasks[t].result.status = "completed")
          => tasks[t].cb = Some(100)
    /\ \A j \in DOMAIN jobs :
          (jobs[j].status = "completed" /\ jobs[j].result # None
              /\ jobs[j].result[1].status = "completed" /\ AllRunsEnded(j))
          => jobs[j].progress = 100

\* the stages the claim orders, and those a configuration enables
ClaimStages ==
    <<"parse", "normalize", "enforce", "missing", "filter", "noise",
      "validate", "write">>

StageEnabled(stage, config) ==
    /\ stage = "enforce" => ConfigGet(config, "enforce_types", TRUE)
    /\ stage = "missing" => ConfigGet(config, "handle_missing_data", TRUE)

RECURSIVE Keep(_, _)
Keep(seq, S) ==
    IF seq = <<>> THEN <<>>
    ELSE IF Head(seq) \in S THEN <<Head(seq)>> \o Keep(Tail(seq), S)
    ELSE Keep(Tail(seq), S)

EnabledStages(config) ==
    Keep(ClaimStages, {ClaimStages[i] : i \in {k \in 1..Len(ClaimStages) :
                                         StageEnabled(ClaimStages[k], config)}})

StagesRun(t) == Keep(tasks[t].stages, {ClaimStages[i] : i \in 1..Len(ClaimStages)})

\* C7: in every tabular run the stages that have run so far are an initial
\* part of parse, normalize, type-enforce, missing-data, filter, noise,
\* validate, write with the disabled optional stages left out (so none ran
\* early, late or twice), and a run that ends completed ran all of them.
C7_FixedStageOrder ==
    \A t \in TaskIds :
        (tasks[t].ext \in TabularExtensions /\ tasks[t].pc # "done")
        => /\ IsPrefix(StagesRun(t), EnabledStages(tasks[t].config))
           /\ tasks[t].result.status = "completed"
                 => StagesRun(t) = EnabledStages(tasks[t].config)

\* a completed tabular run with type enforcement disabled, all other stages run
C7_Witness ==
    \E t \in TaskIds :
        /\ tasks[t].ext \in TabularExtensions
        /\ tasks[t].pc = "mark_completed"
        /\ tasks[t].result.status = "completed"
        /\ ~ConfigGet(tasks[t].config, "enforce_types", TRUE)
        /\ StagesRun(t) = <<"parse", "normalize", "missing", "filter", "noise",
                            "validate", "write">>

\* ------------------------------------------------------- filter claims
\* the filters dict without its i-th item
Without(filters, i) ==
    [k \in 1..(Len(filters) - 1) |-> IF k < i THEN filters[k] ELSE filters[k + 1]]

\* the frame the column loop holds when it reaches the i-th item
Reached(df, filters, i) ==
    LET ColumnsTo[k \in 0..(i - 1)] ==
            IF k = 0 THEN GlobalFilters(df, filters)
            ELSE ColumnRule(ColumnsTo[k - 1], filters[k][1], filters[k][2])
    IN  ColumnsTo[i - 1]

IsGlobalKey(key) == StartsWith(key, <<"_">>)

\* C8: for two predicates the rows of one call with both, the rows of the
\* two calls chained in either order, and the intersection of the rows each
\* predicate keeps on its own are the same rows.
C8_ConjunctiveOrderIndependent ==
    (f_out # None /\ Len(f_filters) = 2 /\ Len(f_applied) = 2) =>
        /\ Index(f_out[1]) = Index(f_chain)
        /\ Index(f_chain) = Index(apply_filters(f_df, <<f_filters[1]>>))
                            \cap Index(apply_filters(f_df, <<f_filters[2]>>))

\* the operand(s) the operator reads cannot be parsed for the detected type
UnparsableOperand(df, key, rule) ==
    LET column == _resolve_column(df, key)
        col_type == _detect_column_type(df, column)
        op == OpOf(rule)
    IN  /\ ~IsGlobalKey(key) /\ IsDict(rule) /\ column # 0
        /\ \/ /\ col_type = "numeric"
              /\ \/ /\ op \in {">", ">=", "<", "<=", "==", "equals"}
                    /\ ToNumeric(Get(rule, "value")) = None
                 \/ /\ op = "between"
                    /\ \/ ToNumeric(Get(rule, "min")) = None
                       \/ ToNumeric(Get(rule, "max")) = None
           \/ /\ col_type = "datetime"
              /\ \/ /\ op \in {"range", "between"}
                    /\ \/ ToDatetime(Get(rule, "start")) = None
                       \/ ToDatetime(Get(rule, "end")) = None
                 \/ /\ op \in {"==", "equals"}
                    /\ ToDatetime(Get(rule, "value")) = None

\* C9: a column predicate whose operand cannot be parsed for the detected
\* type of its column leaves the rows as they were when it was reached, and
\* the call returns what it returns for the other predicates alone.
C9_UnparsableOperandSkipped ==
    (f_out # None /\ Len(f_df.rows) > 0) =>
        \A i \in DOMAIN f_filters :
            LET before == Reached(f_df, f_filters, i)
                key == f_filters[i][1]
                rule == f_filters[i][2]
            IN  UnparsableOperand(before, key, rule) =>
                    /\ Index(ColumnRule(before, key, rule)) = Index(before)
                    /\ Index(f_out[1])
                         = Index(apply_filters(f_df, Without(f_filters, i)))

\* the operators of each detected type
ValidOps(col_type) ==
    CASE col_type = "numeric" -> {">", ">=", "<", "<=", "==", "equals", "between"}
      [] col_type = "datetime" -> {"range", "between", "==", "equals"}
      [] col_type = "boolean" -> {"==", "equals"}
      [] col_type = "text" -> {"equals", "==", "contains", "starts_with",
                               "ends_with", "in"}

\* the key names no column, or the operator is not one of the detected type
FailsOpen(df, key, rule) ==
    LET column == _resolve_column(df, key)
    IN  /\ ~IsGlobalKey(key) /\ IsDict(rule)
        /\ \/ column = 0
           \/ /\ column # 0
              /\ OpOf(rule) \notin ValidOps(_detect_column_type(df, column))

\* C10: a column predicate whose key resolves to no column, or whose
\* operator is not valid for the detected type, removes no rows, and the
\* call returns what it returns for the other predicates alone.
C10_InvalidPredicateFailsOpen ==
    (f_out # None /\ Len(f_df.rows) > 0) =>
        \A i \in DOMAIN f_filters :
            LET before == Reached(f_df, f_filters, i)
                key == f_filters[i][1]
                rule == f_filters[i][2]
            IN  FailsOpen(before, key, rule) =>
                    /\ Index(ColumnRule(before, key, rule)) = Index(before)
                    /\ Index(f_out[1])
                         = Index(apply_filters(f_df, Without(f_filters, i)))

\* ------------------------------------------------- column resolution claims
\* the first position of a set of column positions, 0 for none
FirstOf(positions) ==
    IF positions = {} THEN 0
    ELSE CHOOSE c \in positions : \A d \in positions : c <= d

\* C11: if some column equals the key case-insensitively, that column is
\* returned, whatever earlier column contains or is contained in the key;
\* otherwise the first column in declaration order that contains or is
\* contained in the key is returned, and None if there is none.
C11_ExactMatchPreferred ==
    fn_out # None =>
        LET cols == fn_in.columns
            k == Strip(Lower(fn_in.key))
            exact == {c \in DOMAIN cols : Lower(cols[c]) = k}
            partial == {c \in DOMAIN cols :
                           \/ Contains(Lower(cols[c]), k)
                           \/ Contains(k, Lower(cols[c]))}
        IN  fn_out[1] = IF exact # {} THEN FirstOf(exact) ELSE FirstOf(partial)

\* ------------------------------------------------------------ noise claims
\* C12: after remove_duplicates no two surviving rows have the same
\* normalized fingerprint.
C12_FingerprintsUnique ==
    fn_out # None =>
        \A i, j \in DOMAIN fn_out[1].rows :
            i # j => Fingerprint(fn_out[1].rows[i].cells)
                       # Fingerprint(fn_out[1].rows[j].cells)

\* the cells of the rows of a frame, top to bottom
CellsOf(df) == [i \in DOMAIN df.rows |-> df.rows[i].cells]

SelectedColumns ==
    IF fn_in.columns = None THEN NumericLike(fn_in.df) ELSE fn_in.columns

C15_Idempotent ==
    Len(fn_out) = 2 => fn_out[2].columns = fn_out[1].columns

\* C16: after standardize_columns on a frame that has rows the column names
\* are pairwise distinct.
C16_NamesDistinct ==
    (Len(fn_out) >= 1 /\ Len(fn_in.rows) > 0) =>
        \A c, d \in DOMAIN fn_out[1].columns :
            c # d => fn_out[1].columns[c] # fn_out[1].columns[d]

\* ------------------------------------------------------ job storage claims
\* the job was created and is no longer registered
Deleted(job_id) == job_id \in 1..nextId /\ job_id \notin DOMAIN jobs

\* C17: once a job is deleted, its upload has been closed and every run
\* started for it has ended, storage holds no file keyed by its id.
C17_DeleteRemovesFiles ==
    \A j \in JobIds :
        (/\ Deleted(j)
         /\ AllRunsEnded(j)
         /\ \A e \in ingesting : e[1] # j)
            => \A f \in files : f[1] # j

\* C18: when the runs of a registered job have ended and one of them
\* recorded an error, in the result it returned or in the job's error list,
\* the error report download for the job succeeds.
C18_ErrorReportDownloadable ==
    \A j \in DOMAIN jobs :
        (/\ RunsOf(j) # {}
         /\ AllRunsEnded(j)
         /\ \/ jobs[j].errors # <<>>
            \/ jobs[j].result # None /\ jobs[j].result[1].errors # <<>>)
            => download_error_report(j) = 200

\* some operation of the server takes the job to cancelled in one step
CanCancel(j) ==
    ENABLED (Next /\ j \in DOMAIN jobs' /\ jobs'[j].status = "cancelled")

\* C19: a pending or processing job can be cancelled by an operation of the
\* server.  (That a cancelled job is never started and never changes status
\* again says nothing as long as no job is ever cancelled.)
C19_CancelledReachable ==
    \A j \in DOMAIN jobs :
        jobs[j].status \in {"pending", "processing"} => CanCancel(j)

\* the step is an operation on, or on behalf of, job a
OnBehalfOf(a) ==
    \/ running # 0 /\ tasks[running].job_id = a
    \/ running = 0 /\ a = nextId + 1 /\ \E ext \in ValidExtensions : Ingest(ext)
    \/ \E ext \in ValidExtensions : IngestFinish(a, ext)
    \/ \E config \in ProcessConfigs : ProcessJob(a, config)
    \/ DeleteJob(a)

\* C20: a step on behalf of job a leaves every other registered job b
\* registered, with the same status, progress, error list, result and
\* metadata.
C20_Step ==
    \A a, b \in JobIds :
        (a # b /\ b \in DOMAIN jobs /\ OnBehalfOf(a)) =>
            /\ b \in DOMAIN jobs'
            /\ jobs'[b] = jobs[b]
C20_JobsIndependent == [][C20_Step]_vars

\* two registered jobs, one of them pending while a run of the other is
\* past its first checkpoints
C20_Witness ==
    \E a, b \in DOMAIN jobs :
        /\ a # b
        /\ jobs[a].status = "processing" /\ jobs[a].progress >= 25
        /\ jobs[b].status = "pending"

\* ------------------------------------------------------------------ C23
\* a request to process the job j, made in the current state, is rejected
Rejected(j) == j \notin DOMAIN jobs \/ jobs[j].status # "pending"

C23_Step ==
    \A j \in JobIds, config \in ProcessConfigs :
        (ProcessJob(j, config) /\ Rejected(j)) =>
            /\ process_job(j) = (IF j \in DOMAIN jobs THEN 400 ELSE 404)
            /\ UNCHANGED <<jobs, tasks, ready>>

\* C23: a process request for an unknown job is answered 404 and one for a
\* job that is not pending is answered 400; in both cases no task is created
\* and the registry (status, progress, result, errors of every job) is left
\* as it was
C23_ProcessValidatesPending == [][C23_Step]_vars

\* a job that is processing and a job id that is gone, with room for another
\* task: a process request for either would be rejected here
C23_Witness ==
    /\ running = 0
    /\ Len(tasks) < MaxTasks
    /\ \E j \in DOMAIN jobs : jobs[j].status = "processing"
    /\ \E j \in 1..nextId : j \notin DOMAIN jobs

\* ------------------------------------------------------------------ C28
\* the task t has entered process_job_async
Started(t) == tasks[t].pc # "start"

\* C28: no two worker tasks of the same job ever both execute: of the tasks
\* created for one job at most one gets past its first statement
C28_AtMostOneRun ==
    \A a, b \in DOMAIN tasks :
        (tasks[a].job_id = tasks[b].job_id /\ Started(a) /\ Started(b)) => a = b

\* ------------------------------------------------------------------ C29
\* C29: in every reachable state a job whose status is completed holds a
\* result
C29_CompletedHasResult ==
    \A j \in DOMAIN jobs : jobs[j].status = "completed" => jobs[j].result # None

\* a job marked completed by a worker that has returned
C29_Witness ==
    \E t \in DOMAIN tasks :
        /\ tasks[t].pc = "done"
        /\ tasks[t].job_id \in DOMAIN jobs
        /\ jobs[tasks[t].job_id].status = "completed"
        /\ jobs[tasks[t].job_id].result # None

\* ------------------------------------------------------------------ C30
\* the store calls of a worker: every step of a task but the loop's hand-over
WorkerStep(t) ==
    \/ WorkerStart(t) \/ Parse(t) \/ Normalize(t) \/ EnforceTypes(t)
    \/ HandleMissing(t) \/ Filter(t) \/ Noise(t) \/ Validate(t) \/ Profile(t)
    \/ Vectorize(t) \/ WriteOutput(t) \/ Finish(t) \/ PipelineExcept(t)
    \/ WorkerSetResult(t) \/ WorkerMarkCompleted(t) \/ WorkerExcept(t)

C30_Step ==
    /\ \A j \in 1..nextId : j \notin DOMAIN jobs => j \notin DOMAIN jobs'
    /\ \A t \in DOMAIN tasks :
          (WorkerStep(t) /\ tasks[t].job_id \notin DOMAIN jobs) => jobs' = jobs

\* C30: a job id that has left the registry never returns to it, and every
\* step a worker takes for a job that is not in the registry leaves the
\* registry as it was
C30_DeletedStaysDeleted == [][C30_Step]_vars

\* a worker between set_job_result and update_job_status for a job that was
\* deleted during the run: set_job_result was called for the absent job
C30_Witness ==
    \E t \in DOMAIN tasks :
        /\ running = t
        /\ tasks[t].pc = "mark_completed"
        /\ tasks[t].job_id \notin DOMAIN jobs

\* ------------------------------------------------------------------ C26
\* the validate stage added the messages of rows that violate the schema
HasSchemaViolation(result) ==
    \E i \in DOMAIN result.errors : result.errors[i] = "schema violation"

\* the output format of the run is one write_output knows
WritableFormat(config) ==
    ConfigGet(config, "output_format", "csv") \in {"json", "csv"}

ThreeRowsOneDuplicate ==
    DedupeFrame(<< <<PyStr(Jo), PyInt(25)>>, <<PyStr(<<"A", "l">>), PyInt(30)>>,
                   <<PyStr(Jo), PyInt(25)>> >>)

\* C24: in a completed run rows_after is the number of rows written,
\* rows_before is the number of rows of the table as it entered cleaning,
\* their difference is duplicates_removed + outliers_removed, and the
\* three-row table with one exact duplicate, deduplicated without filters,
\* gives rows_before = 3, rows_after = 2 and two rows written
C24_RowCounts ==
    (fn_out # None /\ fn_out[1].status = "completed") =>
        LET r == fn_out[1]
        IN  /\ r.written = Some(r.rows_after)
            /\ r.rows_before = Len(Filtered(fn_in.df, fn_in.config).rows)
            /\ r.rows_before - r.rows_after =
                   r.duplicates_removed + r.outliers_removed
            /\ (/\ fn_in.df = ThreeRowsOneDuplicate
                /\ ConfigGet(fn_in.config, "remove_duplicates", TRUE)
                /\ ConfigGet(fn_in.config, "filters", <<>>) = <<>>) =>
                   (r.rows_before = 3 /\ r.rows_after = 2 /\ r.written = Some(2))

\* a completed run that removed both a duplicate and an outlier
C24_Witness ==
    /\ fn_out # None
    /\ fn_out[1].status = "completed"
    /\ fn_out[1].duplicates_removed > 0
    /\ fn_out[1].outliers_removed > 0
    /\ fn_out[1].written = Some(10)

\* ------------------------------------------------------------------ C21
\* a score in hundredths that lies in [0, 100]
InRange(cents) == 0 <= cents /\ cents <= 10000

\* C21: the four sub-scores and the overall score of every result lie in
\* [0, 100]
C21_ScoresInRange ==
    fn_out # None =>
        /\ InRange(fn_out[1].completeness_score)
        /\ InRange(fn_out[1].validity_score)
        /\ InRange(fn_out[1].consistency_score)
        /\ InRange(fn_out[1].accuracy_score)
        /\ InRange(fn_out[1].overall_score)

\* a result in which both validity penalties met their caps and the
\* completeness penalty applied
C21_Witness ==
    /\ fn_out # None
    /\ fn_out[1].validity_score = 2000
    /\ fn_out[1].completeness_score < 9000
    /\ fn_out[1].accuracy_score < 10000
    /\ fn_in.missing_data_report = Some(<<60, 70, 80, 90, 100>>)

\* ------------------------------------------------------------------ C22
\* the grade the mapping gives to a reported score (in hundredths)
GradeOf(cents) ==
    IF cents >= 9000 THEN "A" ELSE IF cents >= 8000 THEN "B"
    ELSE IF cents >= 7000 THEN "C" ELSE IF cents >= 6000 THEN "D" ELSE "F"

\* C22: the grade of every result is the grade of the overall score
\* reported in the same result
C22_GradeMatchesReportedScore ==
    fn_out # None => fn_out[1].grade = GradeOf(fn_out[1].overall_score)

\* range_rules with the action of the k-th column rule set to action
WithAction(range_rules, k, action) ==
    [range_rules EXCEPT ![k] =
        <<range_rules[k][1],
          [x \in DOMAIN range_rules[k][2] \cup {"action"} |->
              IF x = "action" THEN action ELSE range_rules[k][2][x]]>>]

AllActions(range_rules, action) ==
    \A k \in DOMAIN range_rules : ActionOf(range_rules[k][2]) = action

\* the cell of a row is below the min or above the max of a rule for its column
Offends(df, cells, item) ==
    LET c == ColumnAt(df, item[1])
        v == IF c = 0 THEN None ELSE ToNumeric(cells[c])
    IN  /\ v # None
        /\ \/ "min" \in DOMAIN item[2] /\ v[1] < item[2].min
           \/ "max" \in DOMAIN item[2] /\ v[1] > item[2].max

\* the cell after saturation to the bounds of the rules for its column
Saturated(df, cells, c, range_rules) ==
    LET at == {k \in DOMAIN range_rules : ColumnAt(df, range_rules[k][1]) = c
                                          /\ Offends(df, cells, range_rules[k])}
        v == ToNumeric(cells[c])
    IN  IF at = {} THEN cells[c]
        ELSE LET rules == range_rules[CHOOSE k \in at : TRUE][2]
             IN  IF "min" \in DOMAIN rules /\ v[1] < rules.min
                 THEN PyInt(rules.min) ELSE PyInt(rules.max)

\* C27: range validation reports the same violation entries whichever of
\* flag, drop and clip a column rule names; flag leaves the table unchanged,
\* drop removes exactly the rows with a value below min or above max, clip
\* keeps every row and replaces each offending value by the violated bound;
\* age [25, 150, 35, -5, 45] with min 0, max 120 and clip becomes
\* [25, 120, 35, 0, 45] with 2 violation entries
C27_ViolationsIndependentOfAction ==
    fn_out # None =>
        LET df == fn_in.df
            range_rules == fn_in.range_rules
            out == fn_out[1]
        IN  /\ \A k \in DOMAIN range_rules : \A action \in {"flag", "drop", "clip"} :
                  validate_ranges(df, WithAction(range_rules, k, action)).violations
                      = out.violations
            /\ AllActions(range_rules, "flag") => out.df = df
            /\ AllActions(range_rules, "drop") =>
                  out.df.rows = Pick(df.rows, {i \in DOMAIN df.rows :
                      \A k \in DOMAIN range_rules :
                          ~Offends(df, df.rows[i].cells, range_rules[k])})
            /\ AllActions(range_rules, "clip") =>
                  /\ Len(out.df.rows) = Len(df.rows)
                  /\ \A i \in DOMAIN df.rows : \A c \in DOMAIN df.columns :
                        out.df.rows[i].cells[c]
                            = Saturated(df, df.rows[i].cells, c, range_rules)
            /\ (df = AgeFrame /\ range_rules
                    = << <<AgeColumn, [min |-> 0, max |-> 120, action |-> "clip"]>> >>)
                  => /\ [i \in 1..5 |-> out.df.rows[i].cells[1].n] = <<25, 120, 35, 0, 45>>
                     /\ Len(out.violations) = 2

\* the same statement for calls with a rule for one column only
SingleRuleRangesAgree ==
    Len(fn_in.range_rules) <= 1 => C27_ViolationsIndependentOfAction

\* the column's turn in handle_missing_data raises: the column has a missing
\* cell, no earlier column drops rows, and its strategy cannot fill it
StrategyRaises(df, c, plan, default_strategy, fill_value) ==
    LET StrategyOf(d) == IF df.columns[d] \in DOMAIN plan THEN plan[df.columns[d]]
                         ELSE default_strategy
    IN  /\ NullRows(df, c) # {}
        /\ \A d \in 1..(c - 1) : NullRows(df, d) = {} \/ StrategyOf(d) # "drop_rows"
        /\ ApplyStrategy(df, c, StrategyOf(c), fill_value).raised

\* the strategy dict with the entry of one column replaced by a strategy
\* that does nothing
Skipping(plan, col) ==
    [k \in DOMAIN plan \cup {col} |-> IF k = col THEN "skip" ELSE plan[k]]

ActionsBut(actions, col) ==
    Pick(actions, {k \in DOMAIN actions : actions[k][1] # col})

\* the type map without the entries of columns that the table does not have
PresentItems(df, items) ==
    Pick(items, {k \in DOMAIN items : ColumnAt(df, items[k][1]) # 0})

AbsentItems(df, items) ==
    Pick(items, {k \in DOMAIN items : ColumnAt(df, items[k][1]) = 0})

====
